---- MODULE Spec2Model ----
(***************************************************************************)
(* Fetch orchestration core of backend/main.py.                            *)
(*                                                                         *)
(* Spec        EarthdataService: one fetch_with_timeout call, running      *)
(*             _fetch_point_history and its per-year _extract_for_year     *)
(*             tasks under the service's semaphore.                        *)
(* SharedSpec  the same, for several concurrent calls on one service.      *)
(* CacheSpec   the handle resolution of _fetch_point_history for several   *)
(*             calls with one cache key, under a clock.                    *)
(* OrchSpec    HybridOrchestrator.fetch for one request in each mode, on   *)
(*             top of what EarthdataService.fetch_with_timeout and         *)
(*             POWERService.fetch return.                                  *)
(* PureSpec    the functions without state, applied to drawn arguments.    *)
(* ControlledSpec  concurrent _fetch_single_day_controlled calls on one    *)
(*             service.                                                    *)
(* EndpointSpec  one request to /probability/rain, on top of OrchSpec.     *)
(* RequestSpec  HybridOrchestrator.fetch for one request with the precise  *)
(*             path run by the collector of Spec, under fairness.          *)
(***************************************************************************)
EXTENDS Integers, Sequences, FiniteSets, TLC

\* ------------------------------------------------------------------ bounds
NBatches == 2        \* concurrent fetch_with_timeout calls on one service
NCalls == 4          \* concurrent _fetch_single_day_controlled calls (ControlledSpec)
MaxLimit == 4        \* largest semaphore limit of ControlledSpec
MaxYears == 3        \* largest years_back of a single call (Spec)
MaxSharedYears == 2  \* largest years_back of concurrent calls (SharedSpec)
MaxConcurrency == 2  \* largest max_concurrency given to the constructor
MaxEarly == 3        \* largest early_return_count given to the constructor
MaxCacheYears == 2   \* largest years_back of the calls of CacheSpec
TickSeconds == 300   \* the step of the clock of CacheSpec
MaxClock == 1200     \* the clock of CacheSpec stops here

Batches == 1..NBatches
Calls == 1..NCalls

Max(a, b) == IF a >= b THEN a ELSE b
Min(a, b) == IF a <= b THEN a ELSE b

\* ------------------------------------------------------------- LayerResponse
\* main.py:79-86; timing_ms is left out. NoResponse stands for "not returned yet".
L1Source == "NASA GPM IMERG + MERRA-2 (S3 OPENDAP)"
L2Source == "NASA POWER API (Climatology)"
NoResponse == [data |-> <<>>, source |-> "", success |-> FALSE, error |-> "pending"]

SuccessThresholdThree(erc, yb) == 3

SuccessThresholdAllYears(erc, yb) == yb

\* main.py:181  len(data) >= max(3, min(self.early_return_count, years_back))
SuccessThreshold(erc, yb) == Max(3, Min(erc, yb))

\* main.py:185  f"Insufficient data ({len(data)} points)"
InsufficientMessage(n) == "Insufficient data (" \o ToString(n) \o " points)"

CollectedResponseDropsData(data, erc, yb) ==
    IF Len(data) >= SuccessThreshold(erc, yb)
    THEN [data |-> data, source |-> L1Source, success |-> TRUE, error |-> "None"]
    ELSE [data |-> <<>>, source |-> L1Source, success |-> FALSE,
          error |-> InsufficientMessage(Len(data))]

\* main.py:180-185  the response built from the list the collector returned
CollectedResponse(data, erc, yb) ==
    IF Len(data) >= SuccessThreshold(erc, yb)
    THEN [data |-> data, source |-> L1Source, success |-> TRUE, error |-> "None"]
    ELSE [data |-> data, source |-> L1Source, success |-> FALSE,
          error |-> InsufficientMessage(Len(data))]

\* main.py:186-189
TimeoutResponse ==
    [data |-> <<>>, source |-> L1Source, success |-> FALSE, error |-> "Timeout"]

\* What the collector can raise, by message (str(e)); "" is an error without one.
ErrorMessages == {"exception", ""}

CaptureErrorGeneric(msg) ==
    [data |-> <<>>, source |-> L1Source, success |-> FALSE, error |-> "error"]

\* main.py:190-193  the response built from a captured error
CaptureError(msg) ==
    [data |-> <<>>, source |-> L1Source, success |-> FALSE, error |-> msg]

\* Stands for an exception leaving the call instead of a LayerResponse.
Raised == [data |-> <<>>, source |-> "", success |-> FALSE, error |-> "raised"]

CaughtOnlyTimeout(kind) == kind = "TimeoutError"

\* main.py:186, 190 and 991  the except clauses around the collector and around
\* _fetch_power_data: TimeoutError and every other Exception are caught, a
\* CancelledError is not.
Caught(kind) == kind \in {"TimeoutError", "Exception"}

\* asyncio.wait_for (main.py:177) once the wrapped collector has finished.
\* If the deadline fired and the collector still returned a list (it swallowed
\* the cancellation), the interpreter either hands that list back (3.11 and
\* later) or raises TimeoutError (3.9, 3.10): both outcomes are possible.
WaitForResponses(expired, data, erc, yb) ==
    IF expired
    THEN {CollectedResponse(data, erc, yb), TimeoutResponse}
    ELSE {CollectedResponse(data, erc, yb)}

VARIABLES
    years_back,          \* the query's years_back (all calls use one query)
    max_concurrency,     \* self.max_concurrency
    early_return_count,  \* self.early_return_count
    semaphore,           \* free permits of self.semaphore
    pc,                  \* per call: where fetch_with_timeout stands
    tasks,               \* per call, per year: state of the extraction task
    thread,              \* per call, per year: the to_thread worker
    doneq,               \* per call: as_completed's queue of finished tasks
    todo,                \* per call: as_completed iterations not yet taken
    results,             \* per call: the collector's results list
    expired,             \* per call: the wait_for deadline has fired
    how,                 \* per call: how the collector ended
    response,            \* per call: the LayerResponse returned
    exc,                 \* per call: the message of the error the collector raised
    cache,               \* self._search_cache[cache_key] of the one key in use
    now,                 \* time.time(), in seconds
    search_calls,        \* per (year, product): calls of earthaccess.search_data
    found,               \* per call: what its _search_for_years returned, and when
    handles,             \* per call: the imerg_map and merra_map it went on with
    mode,                \* the request's FetchMode
    opc,                 \* where HybridOrchestrator.fetch stands
    layer1_task,         \* the task running earthdata.fetch_with_timeout
    layer1_result,       \* what that task returned
    layer1_response,     \* the orchestrator's layer1_response
    layer2_task,         \* the call (or task) running power.fetch
    layer2_response,     \* the orchestrator's layer2_response
    l1_calls,            \* calls of earthdata.fetch_with_timeout
    l2_calls,            \* calls of power.fetch
    record,              \* the dict HybridOrchestrator.fetch returned
    layer1_run,          \* what the precise path met: handles, readable years, deadline
    raising,             \* the services handed to the orchestrator whose call raises
    pure,                \* the last call of a function without state, with its result
    cache_ttl_seconds,   \* the cache_ttl_seconds handed to EarthdataService(...)
    controlled,          \* per _fetch_single_day_controlled call: where it stands
    orchestrator,        \* the global orchestrator is set (startup_event succeeded)
    http                 \* what the probability endpoint answered

config == <<years_back, max_concurrency, early_return_count, raising, cache_ttl_seconds,
            orchestrator>>

svars == <<semaphore, pc, tasks, thread, doneq, todo, results, expired, how, response,
           exc>>

cvars == <<cache, now, search_calls, found, handles>>

ovars == <<mode, opc, layer1_task, layer1_result, layer1_response, layer2_task,
           layer2_response, l1_calls, l2_calls, record, layer1_run>>

vars == <<config, svars, cvars, ovars, pure, controlled, http>>

Years == 1..years_back

\* ===================================================== EarthdataService
Holders(b) == {y \in Years : tasks[b][y] \in {"reading", "cancelling"}}
AllHolders == {<<b, y>> \in Batches \X Years : y \in Holders(b)}
NotDone(b) == {y \in Years : tasks[b][y] \in {"pending", "reading"}}

\* t.cancel() for every task that is not done. A task that has not acquired
\* the semaphore is cancelled before it runs any further; a task awaiting
\* its worker thread takes the CancelledError at its next step
\* (CancelDelivered), and the worker thread itself cannot be stopped.
CancelNotDone(tk) ==
    [y \in DOMAIN tk |->
        IF tk[y] = "pending" THEN "cancelled"
        ELSE IF tk[y] = "reading" THEN "cancelling"
        ELSE tk[y]]

CancelRemainingKeepsPending(tk) ==
    [y \in DOMAIN tk |-> IF tk[y] = "reading" THEN "cancelling" ELSE tk[y]]

\* main.py:238-241  "cancel remaining" on early return
CancelRemaining(tk) == CancelNotDone(tk)

\* main.py:252-255  "cancel leftovers" after the loop
CancelLeftovers(tk) == CancelNotDone(tk)

CanAcquireAlways(sem) == TRUE

CanAcquireKeepsOne(sem) == sem > 1

\* asyncio.Semaphore.acquire as entered by main.py:357: a permit is free
CanAcquire(sem) == sem > 0

EarlyReturnOneShort(got, erc) == Len(got) + 1 >= erc

\* main.py:237  len(results) >= self.early_return_count
EarlyReturn(got, erc) == Len(got) >= erc

ReleaseLeaks(sem) == sem

\* Leaving "async with self.semaphore" (main.py:357): Semaphore.release
Release(sem) == sem + 1

\* main.py:234-235  "if res: results.append(res)" for the task of year y
Collect(got, outcome, y) == IF outcome = "obs" THEN Append(got, y) ELSE got

\* ------------------------------------------------------------ search cache
\* main.py:205  the age below which a cached mapping is used
CacheTTL == 600

\* main.py:136  the default of the constructor's cache_ttl_seconds
DefaultCacheTTL == 600

\* The values of cache_ttl_seconds a service is constructed with in CacheSpec
ConfiguredTTLs == {300, 600, 900}

\* main.py:291-292  the products searched for every year
Products == {"GPM_3IMERGDF", "M2T1NXSLV"}

\* No entry under the key (dict.get returns None); no maps yet.
NoEntry == [imerg |-> {}, merra |-> {}, ts |-> -1]
NoMaps == [imerg |-> {}, merra |-> {}, ts |-> -1]

FreshInclusive(ts, t) == t - ts <= CacheTTL

\* main.py:205  time.time() - ts < 600
Fresh(ts, t) == t - ts < CacheTTL

CacheStoreMerged(old, maps, t) ==
    [imerg |-> old.imerg \cup maps.imerg, merra |-> old.merra \cup maps.merra,
     ts |-> t]

\* main.py:209 and 212  self._search_cache[cache_key] = (imerg_map, merra_map, time.time())
CacheStore(old, maps, t) == [imerg |-> maps.imerg, merra |-> maps.merra, ts |-> t]

WithHandleBoth(maps) == maps.imerg \cap maps.merra

\* The maps of the searches in `made`, had each of them found its granule.
SearchedSoFar(made) ==
    [imerg |-> {yp[1] : yp \in {q \in made : q[2] = "GPM_3IMERGDF"}},
     merra |-> {yp[1] : yp \in {q \in made : q[2] = "M2T1NXSLV"}}]

CacheAfterCancelCommits(old, maps, t) ==
    [imerg |-> maps.imerg, merra |-> maps.merra, ts |-> t]

\* main.py:208-209, 211-212  the store follows "await self._search_for_years":
\* a CancelledError raised at the await leaves the method before the store,
\* so the entry stays what it was.
CacheAfterCancel(old, maps, t) == old

\* main.py:219-221  the years with an IMERG or a MERRA-2 handle
WithHandle(maps) == maps.imerg \cup maps.merra

\* The cache and the clock before any call.
CacheEmpty ==
    /\ cache = NoEntry
    /\ now = 0
    /\ search_calls = [yp \in (1..years_back) \X Products |-> 0]
    /\ found = [b \in Batches |-> NoMaps]
    /\ handles = [b \in Batches |-> NoMaps]

\* The state before any call; `active` are the calls that will be made.
ServiceInit(active) ==
    /\ semaphore = max_concurrency
    /\ pc = [b \in Batches |-> IF b \in active THEN "idle" ELSE "off"]
    /\ tasks = [b \in Batches |-> [y \in 1..years_back |-> "none"]]
    /\ thread = [b \in Batches |-> [y \in 1..years_back |-> "idle"]]
    /\ doneq = [b \in Batches |-> <<>>]
    /\ todo = [b \in Batches |-> 0]
    /\ results = [b \in Batches |-> <<>>]
    /\ expired = [b \in Batches |-> FALSE]
    /\ how = [b \in Batches |-> "running"]
    /\ response = [b \in Batches |-> NoResponse]
    /\ exc = [b \in Batches |-> "none"]

\* No function has been called.
NoCall == [fn |-> "none"]

\* No _fetch_single_day_controlled call is made.
NoControlled == controlled = [c \in Calls |-> "off"]

\* The endpoint has not answered.
NoAnswer == [status |-> 0]

\* main.py:1541-1556  startup_event has set the global orchestrator; no
\* endpoint is called.
NoEndpoint == orchestrator = TRUE /\ http = NoAnswer

\* The services are the implemented ones, constructed with the default
\* cache_ttl_seconds (main.py:136), and no function has been called.
Plain ==
    /\ raising = {}
    /\ pure = NoCall
    /\ cache_ttl_seconds = DefaultCacheTTL
    /\ NoControlled
    /\ NoEndpoint

\* No precise path has run.
NoRun == [handles |-> 0, readable |-> 0, expired |-> FALSE]

NoRecord == [mode |-> "none"]

OrchOff ==
    /\ mode = "none"
    /\ opc = "off"
    /\ layer1_task = "none"
    /\ layer1_result = NoResponse
    /\ layer1_response = NoResponse
    /\ layer2_task = "none"
    /\ layer2_response = NoResponse
    /\ l1_calls = 0
    /\ l2_calls = 0
    /\ record = NoRecord
    /\ layer1_run = NoRun

Init ==
    /\ years_back \in 1..MaxYears
    /\ max_concurrency \in 1..MaxConcurrency
    /\ early_return_count \in 1..MaxEarly
    /\ ServiceInit({1})
    /\ CacheEmpty
    /\ OrchOff
    /\ Plain

SharedInit ==
    /\ years_back \in 1..MaxSharedYears
    /\ max_concurrency \in 1..MaxConcurrency
    /\ early_return_count \in 1..MaxEarly
    /\ ServiceInit(Batches)
    /\ CacheEmpty
    /\ OrchOff
    /\ Plain

ReturnAfterDraining(b, data, way) ==
    /\ response' = response
    /\ pc' = [pc EXCEPT ![b] = "draining"]
    /\ how' = [how EXCEPT ![b] = way]

\* The collector returns `data`: wait_for hands back a response and
\* fetch_with_timeout returns it (main.py:177-189).
Return(b, data, way) ==
    /\ \E r \in WaitForResponses(expired[b], data, early_return_count, years_back) :
          response' = [response EXCEPT ![b] = r]
    /\ pc' = [pc EXCEPT ![b] = "done"]
    /\ how' = [how EXCEPT ![b] = way]

\* main.py:214-227 from the handle maps on: one task per year with a handle,
\* none at all means an empty list at once.
Launch(b, withHandle) ==
    IF withHandle = {}
    THEN /\ Return(b, <<>>, "empty")
         /\ UNCHANGED <<tasks, todo>>
    ELSE /\ tasks' = [tasks EXCEPT ![b] =
                [y \in Years |-> IF y \in withHandle THEN "pending" ELSE "none"]]
         /\ todo' = [todo EXCEPT ![b] = Cardinality(withHandle)]
         /\ pc' = [pc EXCEPT ![b] = "loop"]
         /\ UNCHANGED <<how, response>>

\* fetch_with_timeout is called and the handle maps come from the cache
\* without suspending (main.py:175-178, 198-206, 214-227).
StartCached(b) ==
    /\ pc[b] = "idle"
    /\ \E withHandle \in SUBSET Years : Launch(b, withHandle)
    /\ UNCHANGED <<config, http, pure, controlled, semaphore, thread, doneq, results, expired, exc, cvars, ovars>>

\* fetch_with_timeout is called and the collector suspends in
\* _search_for_years (main.py:175-178, 198-211).
StartSearch(b) ==
    /\ pc[b] = "idle"
    /\ pc' = [pc EXCEPT ![b] = "search"]
    /\ UNCHANGED <<config, http, pure, controlled, semaphore, tasks, thread, doneq, todo, results,
                   expired, how, response, exc, cvars, ovars>>

\* The search returns its maps and the collector goes on (main.py:208-227).
SearchDone(b) ==
    /\ pc[b] = "search"
    /\ \E withHandle \in SUBSET Years : Launch(b, withHandle)
    /\ UNCHANGED <<config, http, pure, controlled, semaphore, thread, doneq, results, expired, exc, cvars, ovars>>

\* _fetch_point_history raises before its first await (the cache key cannot
\* be formatted, or the method is replaced by one that raises): the error is
\* caught by fetch_with_timeout, or leaves it (main.py:176-193, 198-201).
CollectorRaises(b) ==
    /\ pc[b] = "idle"
    /\ \E msg \in ErrorMessages :
          /\ exc' = [exc EXCEPT ![b] = msg]
          /\ IF Caught("Exception")
             THEN /\ response' = [response EXCEPT ![b] = CaptureError(msg)]
                  /\ pc' = [pc EXCEPT ![b] = "done"]
             ELSE /\ response' = [response EXCEPT ![b] = Raised]
                  /\ pc' = [pc EXCEPT ![b] = "raised"]
    /\ how' = [how EXCEPT ![b] = "raised"]
    /\ UNCHANGED <<config, http, pure, controlled, semaphore, tasks, thread, doneq, todo, results, expired,
                   cvars, ovars>>

\* _extract_for_year: "async with self.semaphore" is entered and the
\* blocking extraction is handed to a worker thread (main.py:352-358).
Acquire(b, y) ==
    /\ tasks[b][y] = "pending"
    /\ CanAcquire(semaphore)
    /\ semaphore' = semaphore - 1
    /\ tasks' = [tasks EXCEPT ![b][y] = "reading"]
    /\ thread' = [thread EXCEPT ![b][y] = "running"]
    /\ UNCHANGED <<config, http, pure, controlled, pc, doneq, todo, results, expired, how, response, exc, cvars, ovars>>

\* The worker thread of a live task finishes with an Observation or with
\* None, or the hand-over to the thread raises; the task leaves "async with"
\* and is queued for as_completed (main.py:357-358, 399-406).
Finish(b, y) ==
    /\ tasks[b][y] = "reading"
    /\ \E res \in {"obs", "absent", "error"} :
          tasks' = [tasks EXCEPT ![b][y] = res]
    /\ thread' = [thread EXCEPT ![b][y] = "finished"]
    /\ semaphore' = Release(semaphore)
    /\ doneq' = [doneq EXCEPT ![b] = Append(@, y)]
    /\ UNCHANGED <<config, http, pure, controlled, pc, todo, results, expired, how, response, exc, cvars, ovars>>

\* A task cancelled while it awaited its worker thread takes the
\* CancelledError and leaves "async with" (main.py:357-358).
CancelDelivered(b, y) ==
    /\ tasks[b][y] = "cancelling"
    /\ tasks' = [tasks EXCEPT ![b][y] = "cancelled"]
    /\ semaphore' = Release(semaphore)
    /\ UNCHANGED <<config, http, pure, controlled, pc, thread, doneq, todo, results, expired, how,
                   response, exc, cvars, ovars>>

\* The worker thread of a cancelled task runs to its end; nobody reads
\* what it returns (main.py:358, 360-406).
ThreadEnds(b, y) ==
    /\ tasks[b][y] \in {"cancelling", "cancelled"}
    /\ thread[b][y] = "running"
    /\ thread' = [thread EXCEPT ![b][y] = "finished"]
    /\ UNCHANGED <<config, http, pure, controlled, semaphore, pc, tasks, doneq, todo, results, expired,
                   how, response, exc, cvars, ovars>>

\* One iteration of "for fut in asyncio.as_completed(tasks)" whose await
\* yields a finished task (main.py:231-243) or raises that task's error
\* (main.py:246-248), and, when it was the last iteration, the code after
\* the loop (main.py:252-256).
Consume(b) ==
    /\ pc[b] = "loop"
    /\ doneq[b] # <<>>
    /\ LET y == Head(doneq[b])
           got == Collect(results[b], tasks[b][y], y)
       IN  /\ doneq' = [doneq EXCEPT ![b] = Tail(@)]
           /\ results' = [results EXCEPT ![b] = got]
           /\ todo' = [todo EXCEPT ![b] = @ - 1]
           /\ IF tasks[b][y] = "obs" /\ EarlyReturn(got, early_return_count)
              THEN /\ tasks' = [tasks EXCEPT ![b] = CancelRemaining(@)]
                   /\ Return(b, got, "early")
              ELSE IF todo[b] = 1
              THEN /\ tasks' = [tasks EXCEPT ![b] = CancelLeftovers(@)]
                   /\ Return(b, got, "exhausted")
              ELSE UNCHANGED <<tasks, pc, how, response>>
    /\ UNCHANGED <<config, http, pure, controlled, semaphore, thread, expired, exc, cvars, ovars>>

\* The wait_for deadline fires while the collector is suspended in the
\* search: the CancelledError leaves _fetch_point_history and wait_for
\* raises TimeoutError (main.py:177, 186-189, 208-211).
DeadlineInSearch(b) ==
    /\ pc[b] = "search"
    /\ expired' = [expired EXCEPT ![b] = TRUE]
    /\ response' = [response EXCEPT ![b] = TimeoutResponse]
    /\ pc' = [pc EXCEPT ![b] = "done"]
    /\ how' = [how EXCEPT ![b] = "cancelled"]
    /\ UNCHANGED <<config, http, pure, controlled, semaphore, tasks, thread, doneq, todo, results, exc, cvars, ovars>>

\* The wait_for deadline fires while the collector is suspended in
\* "res = await fut": the CancelledError is raised there and caught by
\* "except asyncio.CancelledError: pass", which uses up this iteration
\* without taking a task from the queue (main.py:231-245, 252-256).
DeadlineInLoop(b) ==
    /\ pc[b] = "loop"
    /\ ~expired[b]
    /\ expired' = [expired EXCEPT ![b] = TRUE]
    /\ todo' = [todo EXCEPT ![b] = @ - 1]
    /\ IF todo[b] = 1
       THEN /\ tasks' = [tasks EXCEPT ![b] = CancelLeftovers(@)]
            /\ \E r \in WaitForResponses(TRUE, results[b], early_return_count,
                                         years_back) :
                  response' = [response EXCEPT ![b] = r]
            /\ pc' = [pc EXCEPT ![b] = "done"]
            /\ how' = [how EXCEPT ![b] = "exhausted"]
       ELSE UNCHANGED <<tasks, pc, how, response>>
    /\ UNCHANGED <<config, http, pure, controlled, semaphore, thread, doneq, results, exc, cvars, ovars>>

Next ==
    \/ \E b \in Batches : StartCached(b)
    \/ \E b \in Batches : StartSearch(b)
    \/ \E b \in Batches : CollectorRaises(b)
    \/ \E b \in Batches : SearchDone(b)
    \/ \E b \in Batches : Consume(b)
    \/ \E b \in Batches : DeadlineInSearch(b)
    \/ \E b \in Batches : DeadlineInLoop(b)
    \/ \E b \in Batches, y \in Years : Acquire(b, y)
    \/ \E b \in Batches, y \in Years : Finish(b, y)
    \/ \E b \in Batches, y \in Years : CancelDelivered(b, y)
    \/ \E b \in Batches, y \in Years : ThreadEnds(b, y)

Spec == Init /\ [][Next]_vars

SharedSpec == SharedInit /\ [][Next]_vars

\* ============================================ the search cache (CacheSpec)
\* The actions above leave the cache aside (a call either finds its maps or
\* searches); the actions below follow the cache entry, the clock and the
\* searches of calls that all use one cache key. search_calls, found and
\* handles are kept by these actions only.

\* The entry is there and young enough: its maps are used, nothing is
\* searched, and the tasks are launched (main.py:201-206, 214-227).
ResolveHit(b) ==
    /\ pc[b] = "idle"
    /\ cache # NoEntry /\ Fresh(cache.ts, now)
    /\ handles' = [handles EXCEPT ![b] = cache]
    /\ Launch(b, WithHandle(cache))
    /\ UNCHANGED <<config, http, pure, controlled, semaphore, thread, doneq, results, expired, exc, cache,
                   now, search_calls, found, ovars>>

\* No entry, or one that is too old: the call suspends in _search_for_years
\* (main.py:201-204, 207-208, 210-211).
ResolveMiss(b) ==
    /\ pc[b] = "idle"
    /\ ~(cache # NoEntry /\ Fresh(cache.ts, now))
    /\ pc' = [pc EXCEPT ![b] = "search"]
    /\ UNCHANGED <<config, http, pure, controlled, semaphore, tasks, thread, doneq, todo, results, expired,
                   how, response, exc, cvars, ovars>>

\* _search_for_years returns: earthaccess.search_data was called once for
\* every year and product, each call found a granule or did not (a failed
\* call counts as not found, main.py:279-281); the maps are stored under the
\* key with the time of the store and the tasks are launched
\* (main.py:208-209, 211-212, 214-227, 288-314).
ResolveSearched(b) ==
    /\ pc[b] = "search"
    /\ \E im \in SUBSET Years, me \in SUBSET Years :
          LET maps == [imerg |-> im, merra |-> me, ts |-> now] IN
          /\ found' = [found EXCEPT ![b] = maps]
          /\ handles' = [handles EXCEPT ![b] = maps]
          /\ cache' = CacheStore(cache, maps, now)
          /\ Launch(b, WithHandle(maps))
    /\ search_calls' = [yp \in DOMAIN search_calls |-> search_calls[yp] + 1]
    /\ UNCHANGED <<config, http, pure, controlled, semaphore, thread, doneq, results, expired, exc, now, ovars>>

\* The wait_for deadline fires during the search: the collector is
\* cancelled before it stores anything; the searches already handed to a
\* thread have been made (main.py:177, 186-189, 208-211, 270-278).
ResolveCancelled(b) ==
    /\ pc[b] = "search"
    /\ expired' = [expired EXCEPT ![b] = TRUE]
    /\ response' = [response EXCEPT ![b] = TimeoutResponse]
    /\ pc' = [pc EXCEPT ![b] = "done"]
    /\ how' = [how EXCEPT ![b] = "cancelled"]
    /\ \E made \in SUBSET DOMAIN search_calls :
          /\ search_calls' = [yp \in DOMAIN search_calls |->
                                 IF yp \in made THEN search_calls[yp] + 1
                                 ELSE search_calls[yp]]
          /\ cache' = CacheAfterCancel(cache, SearchedSoFar(made), now)
    /\ UNCHANGED <<config, http, pure, controlled, semaphore, tasks, thread, doneq, todo, results, exc,
                   now, found, handles, ovars>>

\* Time passes.
Tick ==
    /\ now + TickSeconds <= MaxClock
    /\ now' = now + TickSeconds
    /\ UNCHANGED <<config, http, pure, controlled, svars, cache, search_calls, found, handles, ovars>>

CacheSpecInit ==
    /\ years_back \in 1..MaxCacheYears
    /\ max_concurrency \in 1..MaxConcurrency
    /\ early_return_count \in 1..MaxEarly
    /\ ServiceInit(Batches)
    /\ CacheEmpty
    /\ OrchOff
    /\ raising = {}
    /\ pure = NoCall
    /\ NoControlled
    /\ NoEndpoint
    /\ cache_ttl_seconds \in ConfiguredTTLs

CacheNext ==
    \/ \E b \in Batches : ResolveHit(b)
    \/ \E b \in Batches : ResolveMiss(b)
    \/ \E b \in Batches : ResolveSearched(b)
    \/ \E b \in Batches : ResolveCancelled(b)
    \/ Tick

CacheSpec == CacheSpecInit /\ [][CacheNext]_vars

\* ===================================================== HybridOrchestrator
\* Bounds of OrchSpec; the deployed values are years_back = 10 (main.py:1099)
\* and early_return_count = 7 (main.py:133).
MaxOrchYears == 10
MaxOrchEarly == 10

\* main.py:70-77  WeatherData; the four measurements are whole numbers of
\* hundredths (of a degree, a millimetre, a metre per second)
WeatherData(date, temp_max, temp_min, precip, windspeed) ==
    [date |-> date, temp_max |-> temp_max, temp_min |-> temp_min,
     precip |-> precip, windspeed |-> windspeed]

\* The list of n observations a source returns in OrchSpec, one per year.
ObsSeq(n) == [i \in 1..n |-> WeatherData(i, 3000 + (7 * i * i), 2000, 3 * i * i, 500)]

\* main.py:190-193  an exception of the collector, captured
ErrorResponse == CaptureError("exception")

\* main.py:229-256  how many observations the collector can return
CollectorCounts(erc, yb) == 0..Min(yb, Max(erc, 1))

\* main.py:214-256  how many observations the collector returns when
\* `readable` of its launched extractions yield an Observation: without a
\* deadline every task is awaited until early_return_count observations are
\* in, so it is the smaller of the two; after a swallowed deadline
\* one iteration of the `launched` is lost and it can be any number up to
\* that, short of all.
CollectorReturns(launched, readable, isExpired, erc) ==
    IF isExpired
    THEN 0..Min(Min(readable, erc), launched - 1)
    ELSE {Min(readable, erc)}

\* main.py:186-193  what fetch_with_timeout makes of an error of the collector
Layer1Errors ==
    IF Caught("Exception") THEN {CaptureError(msg) : msg \in ErrorMessages}
    ELSE {Raised}

\* main.py:166-193  every LayerResponse fetch_with_timeout can return
Layer1Responses(erc, yb) ==
    {CollectedResponse(ObsSeq(n), erc, yb) : n \in CollectorCounts(erc, yb)}
        \cup {TimeoutResponse} \cup Layer1Errors

\* main.py:166-256  the runs of the precise path and what each returns: the
\* years with a handle, how many of them are readable, whether the deadline
\* fired, and the response.
Layer1Runs(erc, yb) ==
    {<<[handles |-> h, readable |-> k, expired |-> e], r>> :
        h \in 0..yb, k \in 0..yb, e \in BOOLEAN, r \in Layer1Responses(erc, yb)}

Layer1RunOk(run, r, erc, yb) ==
    /\ run.readable <= run.handles
    /\ \/ /\ r \in Layer1Errors
          /\ run = NoRun
       \/ /\ r = TimeoutResponse
          /\ run.expired
       \/ /\ r.error \in {"None", InsufficientMessage(Len(r.data))}
          /\ r.source = L1Source
          /\ Len(r.data) \in CollectorReturns(run.handles, run.readable,
                                                run.expired, erc)

\* main.py:1002-1077  the two ways _fetch_power_data ends: it returns a list
\* (main.py:1077) or it raises, a non-200 status included (main.py:1032)
PowerReturns(data) == [raises |-> FALSE, data |-> data, msg |-> "None"]
PowerRaises(msg) == [raises |-> TRUE, data |-> <<>>, msg |-> msg]

\* str(e) of what _fetch_power_data raises
PowerMessages == ErrorMessages \cup {"POWER API returned 500"}

PowerFetchNeedsData(outcome) ==
    IF outcome.raises
    THEN [data |-> <<>>, source |-> L2Source, success |-> FALSE,
          error |-> outcome.msg]
    ELSE [data |-> outcome.data, source |-> L2Source,
          success |-> Len(outcome.data) > 0, error |-> "None"]

\* main.py:965-1000  POWERService.fetch
PowerFetch(outcome) ==
    IF outcome.raises
    THEN IF Caught("Exception")
         THEN [data |-> <<>>, source |-> L2Source, success |-> FALSE,
               error |-> outcome.msg]
         ELSE Raised
    ELSE [data |-> outcome.data, source |-> L2Source, success |-> TRUE,
          error |-> "None"]

\* main.py:965-1000  every LayerResponse POWERService.fetch can return: the
\* list _fetch_power_data returned (main.py:1053-1077, at most one element
\* per year), whatever its length, or a captured exception.
Layer2Responses(yb) ==
    {PowerFetch(PowerReturns(ObsSeq(k))) : k \in 0..yb}
        \cup {PowerFetch(PowerRaises(msg)) : msg \in PowerMessages}

\* main.py:1088-1090  the orchestrator calls whatever it was constructed
\* with: a call named in `raising` raises instead of returning a response
\* (test_main.py:1036-1037)
Layer2Outcomes(yb) ==
    IF "power" \in raising THEN {Raised} ELSE Layer2Responses(yb)

\* main.py:1157-1163 and 1236-1242  the responses made up on the outer timeout
OuterTimeoutPrecise ==
    [data |-> <<>>, source |-> "NASA GPM IMERG + MERRA-2 (S3 Cloud)",
     success |-> FALSE, error |-> "Timeout after 45 seconds"]
OuterTimeoutHybrid ==
    [data |-> <<>>, source |-> "NASA GPM IMERG + MERRA-2 (S3 Cloud)",
     success |-> FALSE, error |-> "Timeout - exceeded 25s limit"]

\* A LayerResponse argument that is None is written NoResponse.
IsNone(r) == r = NoResponse

PrimaryResultOnlySuccessful(l1, l2) ==
    IF ~IsNone(l1) /\ l1.success /\ Len(l1.data) > 0 THEN l1
    ELSE IF ~IsNone(l2) /\ l2.success THEN l2
    ELSE NoResponse

PrimaryResultAnyData(l1, l2) ==
    IF ~IsNone(l1) /\ Len(l1.data) > 0 THEN l1
    ELSE IF ~IsNone(l2) THEN l2
    ELSE l1

PrimaryResultFastFirst(l1, l2) ==
    IF ~IsNone(l2) THEN l2 ELSE l1

\* main.py:1261-1270  primary_result
PrimaryResult(l1, l2) ==
    IF ~IsNone(l1) /\ l1.success /\ Len(l1.data) > 0 THEN l1
    ELSE IF ~IsNone(l2) THEN l2
    ELSE IF ~IsNone(l1) THEN l1 ELSE l2

\* main.py:1290-1295 and 1300-1305  the "primary" entry
PrimaryEntry(p) ==
    IF IsNone(p)
    THEN [data |-> <<>>, source |-> "No data", success |-> FALSE]
    ELSE [data |-> p.data, source |-> p.source, success |-> p.success]

Abs(x) == IF x < 0 THEN -x ELSE x

\* main.py:1323-1326  the list of one field of the observations
Column(data, field) == [i \in 1..Len(data) |-> data[i][field]]

RECURSIVE SumSeq(_)
SumSeq(xs) == IF xs = <<>> THEN 0 ELSE xs[1] + SumSeq(Tail(xs))

\* round(x, 2) for x = num / den hundredths, den > 0 and num >= 0: the nearest
\* whole number of hundredths, a tie going to the even one
RoundHalfEven(num, den) ==
    LET q == num \div den
        r == num % den
    IN  IF 2 * r < den THEN q
        ELSE IF 2 * r > den THEN q + 1
        ELSE IF q % 2 = 0 THEN q ELSE q + 1

AbsMeanDiffPaired(xs, ys) ==
    LET m == Min(Len(xs), Len(ys))
    IN  RoundHalfEven(SumSeq([i \in 1..m |-> Abs(xs[i] - ys[i])]), m)

\* main.py:1323-1331  round(abs(np.mean(xs) - np.mean(ys)), 2), in hundredths:
\* |sum(xs)/len(xs) - sum(ys)/len(ys)| over the common denominator
AbsMeanDiff(xs, ys) ==
    RoundHalfEven(Abs(SumSeq(xs) * Len(ys) - SumSeq(ys) * Len(xs)),
                  Len(xs) * Len(ys))

CompareLayersIgnoresSuccess(l1, l2) ==
    IF IsNone(l1) \/ IsNone(l2)
    THEN [available |-> FALSE]
    ELSE IF Len(l1.data) = 0 \/ Len(l2.data) = 0
    THEN [available |-> FALSE]
    ELSE [available |-> TRUE,
          avg_precip_diff_mm |-> AbsMeanDiff(Column(l1.data, "precip"),
                                             Column(l2.data, "precip")),
          avg_temp_diff_c |-> AbsMeanDiff(Column(l1.data, "temp_max"),
                                          Column(l2.data, "temp_max")),
          data_points_l1 |-> Len(l1.data),
          data_points_l2 |-> Len(l2.data)]

\* main.py:1311-1331  _compare_layers
CompareLayers(l1, l2) ==
    IF ~(~IsNone(l1) /\ l1.success /\ ~IsNone(l2) /\ l2.success)
    THEN [available |-> FALSE]
    ELSE IF Len(l1.data) = 0 \/ Len(l2.data) = 0
    THEN [available |-> FALSE]
    ELSE [available |-> TRUE,
          avg_precip_diff_mm |-> AbsMeanDiff(Column(l1.data, "precip"),
                                             Column(l2.data, "precip")),
          avg_temp_diff_c |-> AbsMeanDiff(Column(l1.data, "temp_max"),
                                          Column(l2.data, "temp_max")),
          data_points_l1 |-> Len(l1.data),
          data_points_l2 |-> Len(l2.data)]

\* main.py:1274-1281 and 1282-1288  the "layer1" and "layer2" entries
Layer1Entry(l1) ==
    IF IsNone(l1)
    THEN [data |-> <<>>, source |-> "NASA GPM IMERG + MERRA-2", success |-> FALSE,
          error |-> "Not executed", data_points |-> 0]
    ELSE [data |-> l1.data, source |-> l1.source, success |-> l1.success,
          error |-> l1.error, data_points |-> Len(l1.data)]
Layer2Entry(l2) ==
    IF IsNone(l2)
    THEN [data |-> <<>>, source |-> "NASA POWER API", success |-> FALSE,
          data_points |-> 0]
    ELSE [data |-> l2.data, source |-> l2.source, success |-> l2.success,
          data_points |-> Len(l2.data)]

BuildResponseFlat(m, l1, l2, fallback_used, fallback_reason) ==
    [mode |-> m,
     primary |-> PrimaryEntry(PrimaryResult(l1, l2)),
     fallback_used |-> fallback_used,
     fallback_reason |-> fallback_reason]

\* main.py:1251-1309  _build_response
BuildResponse(m, l1, l2, fallback_used, fallback_reason) ==
    IF m = "hybrid"
    THEN [mode |-> m,
          layer1 |-> Layer1Entry(l1),
          layer2 |-> Layer2Entry(l2),
          comparison |-> CompareLayers(l1, l2),
          primary |-> PrimaryEntry(PrimaryResult(l1, l2))]
    ELSE [mode |-> m,
          primary |-> PrimaryEntry(PrimaryResult(l1, l2)),
          fallback_used |-> fallback_used,
          fallback_reason |-> fallback_reason]

\* ------------------------------------------------------ probability endpoints
SelectLayerAnyData(result) ==
    IF "layer1" \in DOMAIN result
    THEN IF Len(result.layer1.data) > 0
         THEN [data |-> result.layer1.data, source |-> result.layer1.source]
         ELSE [data |-> result.layer2.data, source |-> result.layer2.source]
    ELSE [data |-> result.primary.data, source |-> result.primary.source]

\* main.py:1614-1619  the data and the source a probability endpoint takes
\* from the record that orchestrator.fetch returned
SelectLayer(result) ==
    IF "layer1" \in DOMAIN result
    THEN IF result.layer1.success /\ Len(result.layer1.data) > 0
         THEN [data |-> result.layer1.data, source |-> result.layer1.source]
         ELSE [data |-> result.layer2.data, source |-> result.layer2.source]
    ELSE [data |-> result.primary.data, source |-> result.primary.source]

\* main.py:1148 and 1221  layer1_response.success and len(layer1_response.data) > 0
Layer1Usable(r) == r.success /\ Len(r.data) > 0

AfterAwaitSwallows(r, nxt) == nxt

\* "await" of a call or task (main.py:1119, 1145, 1167, 1213, 1219): an
\* exception of the awaited call is raised again in the awaiting coroutine,
\* which stops there; otherwise it goes on.
AfterAwait(r, nxt) == IF r = Raised THEN "raised" ELSE nxt

\* "return self._build_response(...)" after the awaited call handed back r;
\* an exception of that call leaves HybridOrchestrator.fetch, which has no
\* handler for it (main.py:1092-1107).
ReturnRecord(r, rec) ==
    /\ opc' = AfterAwait(r, "done")
    /\ record' = IF AfterAwait(r, "done") = "done" THEN rec ELSE record

\* One request; the service is only seen through what its calls return.
OrchInit ==
    /\ years_back \in 1..MaxOrchYears
    /\ early_return_count \in 1..MaxOrchEarly
    /\ max_concurrency = 1
    /\ raising \in SUBSET {"earthdata", "power"}
    /\ pure = NoCall
    /\ cache_ttl_seconds = DefaultCacheTTL
    /\ NoControlled
    /\ NoEndpoint
    /\ ServiceInit({})
    /\ CacheEmpty
    /\ layer1_run = NoRun
    /\ mode \in {"fast", "precise", "hybrid"}
    /\ opc = "start"
    /\ layer1_task = "none"
    /\ layer1_result = NoResponse
    /\ layer1_response = NoResponse
    /\ layer2_task = "none"
    /\ layer2_response = NoResponse
    /\ l1_calls = 0
    /\ l2_calls = 0
    /\ record = NoRecord

\* fetch -> _fetch_fast_mode up to "await self.power.fetch" (main.py:1101-1102,
\* 1118-1119)
FastStart ==
    /\ opc = "start" /\ mode = "fast"
    /\ layer2_task' = "running"
    /\ l2_calls' = l2_calls + 1
    /\ opc' = "fast_await"
    /\ UNCHANGED <<config, http, pure, controlled, svars, cvars, layer1_run, mode, layer1_task, layer1_result, layer1_response,
                   layer2_response, l1_calls, record>>

\* power.fetch returns and _fetch_fast_mode builds the record (main.py:1119-1120)
FastReturn ==
    /\ opc = "fast_await"
    /\ \E r \in Layer2Outcomes(years_back) :
          /\ layer2_response' = r
          /\ ReturnRecord(r, BuildResponse("fast", NoResponse, r, FALSE, "None"))
    /\ layer2_task' = "finished"
    /\ UNCHANGED <<config, http, pure, controlled, svars, cvars, layer1_run, mode, layer1_task, layer1_result, layer1_response,
                   l1_calls, l2_calls>>

\* fetch -> _fetch_precise_mode up to "await asyncio.wait_for(layer1_task, 45)"
\* (main.py:1103-1104, 1136-1144)
PreciseStart ==
    /\ opc = "start" /\ mode = "precise"
    /\ layer1_task' = "running"
    /\ l1_calls' = l1_calls + 1
    /\ opc' = "precise_await"
    /\ UNCHANGED <<config, http, pure, controlled, svars, cvars, layer1_run, mode, layer1_result, layer1_response, layer2_task,
                   layer2_response, l2_calls, record>>

\* fetch -> _fetch_hybrid_mode up to "await layer2_task" (main.py:1105-1106,
\* 1203-1214)
HybridStart ==
    /\ opc = "start" /\ mode = "hybrid"
    /\ layer1_task' = "running"
    /\ l1_calls' = l1_calls + 1
    /\ layer2_task' = "running"
    /\ l2_calls' = l2_calls + 1
    /\ opc' = "hybrid_await2"
    /\ UNCHANGED <<config, http, pure, controlled, svars, cvars, layer1_run, mode, layer1_result, layer1_response,
                   layer2_response, record>>

\* The layer1 task ends: fetch_with_timeout returns (main.py:166-193), or the
\* call the orchestrator was given raises
Layer1Finishes ==
    /\ layer1_task = "running"
    /\ IF "earthdata" \in raising
       THEN layer1_run' = NoRun /\ layer1_result' = Raised
       ELSE \E rr \in Layer1Runs(early_return_count, years_back) :
               /\ Layer1RunOk(rr[1], rr[2], early_return_count, years_back)
               /\ layer1_run' = rr[1]
               /\ layer1_result' = rr[2]
    /\ layer1_task' = "finished"
    /\ UNCHANGED <<config, http, pure, controlled, svars, cvars, mode, opc, layer1_response, layer2_task,
                   layer2_response, l1_calls, l2_calls, record>>

PreciseLayer1ReturnedRetries ==
    /\ opc = "precise_await"
    /\ layer1_task = "finished"
    /\ layer1_response' = layer1_result
    /\ IF layer1_result = Raised \/ Layer1Usable(layer1_result)
       THEN /\ ReturnRecord(layer1_result,
                            BuildResponse("precise", layer1_result, NoResponse,
                                          FALSE, "None"))
            /\ UNCHANGED <<layer1_task, l1_calls, layer2_task, l2_calls>>
       ELSE IF l1_calls < 2
       THEN /\ layer1_task' = "running"
            /\ l1_calls' = l1_calls + 1
            /\ UNCHANGED <<opc, record, layer2_task, l2_calls>>
       ELSE /\ layer2_task' = "running"
            /\ l2_calls' = l2_calls + 1
            /\ opc' = "precise_fallback"
            /\ UNCHANGED <<record, layer1_task, l1_calls>>
    /\ UNCHANGED <<config, http, pure, controlled, svars, cvars, layer1_run, mode, layer1_result,
                   layer2_response>>

\* wait_for hands the task's result to _fetch_precise_mode: a usable one is
\* returned, anything else leads to power.fetch (main.py:1144-1152, 1165-1168)
PreciseLayer1Returned ==
    /\ opc = "precise_await"
    /\ layer1_task = "finished"
    /\ layer1_response' = layer1_result
    /\ IF layer1_result = Raised \/ Layer1Usable(layer1_result)
       THEN /\ ReturnRecord(layer1_result,
                            BuildResponse("precise", layer1_result, NoResponse,
                                          FALSE, "None"))
            /\ UNCHANGED <<layer2_task, l2_calls>>
       ELSE /\ layer2_task' = "running"
            /\ l2_calls' = l2_calls + 1
            /\ opc' = "precise_fallback"
            /\ UNCHANGED record
    /\ UNCHANGED <<config, http, pure, controlled, svars, cvars, layer1_run, mode, layer1_task, layer1_result,
                   layer2_response, l1_calls>>

\* The 45 s of _fetch_precise_mode pass with the task still running: it is
\* cancelled and awaited, a timeout response is made up and power.fetch is
\* called (main.py:1153-1168)
PreciseOuterTimeout ==
    /\ opc = "precise_await"
    /\ layer1_task = "running"
    /\ layer1_task' = "cancelled"
    /\ layer1_response' = OuterTimeoutPrecise
    /\ layer2_task' = "running"
    /\ l2_calls' = l2_calls + 1
    /\ opc' = "precise_fallback"
    /\ UNCHANGED <<config, http, pure, controlled, svars, cvars, layer1_run, mode, layer1_result, layer2_response, l1_calls,
                   record>>

\* power.fetch returns to the fallback of _fetch_precise_mode (main.py:1167-1182);
\* fallback_reason is layer1_failed_response.error or "No data"
PreciseFallbackReturn ==
    /\ opc = "precise_fallback"
    /\ \E r \in Layer2Outcomes(years_back) :
          /\ layer2_response' = r
          /\ ReturnRecord(r, BuildResponse("precise", layer1_response, r, TRUE,
                                           IF layer1_response.error \in {"None", ""}
                                           THEN "No data"
                                           ELSE layer1_response.error))
    /\ layer2_task' = "finished"
    /\ UNCHANGED <<config, http, pure, controlled, svars, cvars, layer1_run, mode, layer1_task, layer1_result, layer1_response,
                   l1_calls, l2_calls>>

\* "layer2_response = await layer2_task" of _fetch_hybrid_mode (main.py:1213-1214)
HybridLayer2Returned ==
    /\ opc = "hybrid_await2"
    /\ \E r \in Layer2Outcomes(years_back) :
          /\ layer2_response' = r
          /\ opc' = AfterAwait(r, "hybrid_await1")
    /\ layer2_task' = "finished"
    /\ UNCHANGED <<config, http, pure, controlled, svars, cvars, layer1_run, mode, layer1_task, layer1_result, layer1_response,
                   l1_calls, l2_calls, record>>

HybridLayer1ReturnedFirst ==
    /\ opc \in {"hybrid_await2", "hybrid_await1"}
    /\ layer1_task = "finished"
    /\ layer1_response' = layer1_result
    /\ ReturnRecord(layer1_result,
                    BuildResponse("hybrid", layer1_result, layer2_response,
                                  FALSE, "None"))
    /\ UNCHANGED <<config, http, pure, controlled, svars, cvars, layer1_run, mode, layer1_task, layer1_result, layer2_task,
                   layer2_response, l1_calls, l2_calls>>

\* wait_for hands the task's result to _fetch_hybrid_mode, which builds the
\* record (main.py:1219-1249)
HybridLayer1Returned ==
    /\ opc = "hybrid_await1"
    /\ layer1_task = "finished"
    /\ layer1_response' = layer1_result
    /\ ReturnRecord(layer1_result,
                    BuildResponse("hybrid", layer1_result, layer2_response,
                                  FALSE, "None"))
    /\ UNCHANGED <<config, http, pure, controlled, svars, cvars, layer1_run, mode, layer1_task, layer1_result, layer2_task,
                   layer2_response, l1_calls, l2_calls>>

\* The 25 s of _fetch_hybrid_mode pass with the task still running: it is
\* cancelled and awaited, a timeout response is made up and the record is
\* built (main.py:1229-1249)
HybridOuterTimeout ==
    /\ opc = "hybrid_await1"
    /\ layer1_task = "running"
    /\ layer1_task' = "cancelled"
    /\ layer1_response' = OuterTimeoutHybrid
    /\ record' = BuildResponse("hybrid", OuterTimeoutHybrid, layer2_response,
                               FALSE, "None")
    /\ opc' = "done"
    /\ UNCHANGED <<config, http, pure, controlled, svars, cvars, layer1_run, mode, layer1_result, layer2_task, layer2_response,
                   l1_calls, l2_calls>>

\* The request is cancelled while fetch is suspended at an await. Awaiting a
\* call or a task passes the cancellation on to what is awaited (power.fetch
\* at main.py:1119 and 1167, layer2_task at main.py:1213), and so does
\* asyncio.wait_for for the task it wraps (main.py:1145, 1219); no handler
\* of fetch catches CancelledError and none cancels the other task.
RequestCancelled ==
    /\ opc \in {"fast_await", "precise_await", "precise_fallback",
                "hybrid_await2", "hybrid_await1"}
    /\ opc' = "cancelled"
    /\ layer2_task' = IF opc \in {"fast_await", "precise_fallback", "hybrid_await2"}
                      THEN "cancelled" ELSE layer2_task
    /\ layer1_task' = IF opc \in {"precise_await", "hybrid_await1"}
                         /\ layer1_task = "running"
                      THEN "cancelled" ELSE layer1_task
    /\ UNCHANGED <<config, http, pure, controlled, svars, cvars, layer1_run, mode, layer1_result,
                   layer1_response, layer2_response, l1_calls, l2_calls, record>>

OrchNext ==
    \/ FastStart
    \/ FastReturn
    \/ PreciseStart
    \/ HybridStart
    \/ Layer1Finishes
    \/ PreciseLayer1Returned
    \/ PreciseOuterTimeout
    \/ PreciseFallbackReturn
    \/ HybridLayer2Returned
    \/ HybridLayer1Returned
    \/ HybridOuterTimeout
    \/ RequestCancelled

OrchSpec == OrchInit /\ [][OrchNext]_vars

\* ================================================= functions without state
\* Bounds of PureSpec
MaxPureYears == 2    \* years searched, and the longest list POWER returns
MaxData == 2         \* the longest list handed to _compare_layers
MaxProbLen == 3      \* the longest list handed to calculate_probability

\* Optional[float] (main.py:362-365): None is the empty sequence, a value v is
\* <<v>>. Measurements are whole numbers of hundredths of their unit.
None == <<>>
Some(v) == <<v>>

\* main.py:402  "x or 0.0"
OrZero(x) == IF x = None THEN 0 ELSE IF x[1] = 0 THEN 0 ELSE x[1]

ReadCaughtNothing(kind) == FALSE

\* main.py:386 and 396  "except Exception" around each of the two reads
ReadCaught(kind) == kind = "Exception"

HasDataBoth(precip, temp_max) == precip # None /\ temp_max # None

\* main.py:398  the opposite of "precip is None and temp_max is None"
HasData(precip, temp_max) == ~(precip = None /\ temp_max = None)

\* main.py:434-499  what the read of the precipitation variable can do: raise
\* (when replaced by a reader that does not catch), find nothing, or a value
ImergReads ==
    {[raises |-> TRUE, p |-> None]}
        \cup {[raises |-> FALSE, p |-> p] : p \in {None, Some(0), Some(1250)}}

\* main.py:501-592  what the read of the temperature/wind variables can do:
\* raise, or a triple (tmax, tmin, wind) with any part missing
MerraReads ==
    {[raises |-> TRUE, tmax |-> None, tmin |-> None, wind |-> None]}
        \cup {[raises |-> FALSE, tmax |-> a, tmin |-> b, wind |-> w] :
                a \in {None, Some(0), Some(3100)}, b \in {None, Some(-200)},
                w \in {None, Some(400)}}

\* main.py:360-406  _extract_for_year_blocking; imerg_file and merra_file say
\* whether the year has that handle. A failure that a read's own handler did
\* not catch would reach the outer handler, which gives up the year
\* (main.py:404-406).
ExtractForYearBlocking(year, imerg_file, merra_file, imerg_read, merra_read) ==
    LET imerg_ok == imerg_file /\ ~imerg_read.raises
        merra_ok == merra_file /\ ~merra_read.raises
        escaped == \/ imerg_file /\ imerg_read.raises /\ ~ReadCaught("Exception")
                   \/ merra_file /\ merra_read.raises /\ ~ReadCaught("Exception")
        precip == IF imerg_ok THEN imerg_read.p ELSE None
        both == merra_ok /\ merra_read.tmax # None /\ merra_read.tmin # None
        temp_max == IF both THEN merra_read.tmax ELSE None
        temp_min == IF both THEN merra_read.tmin ELSE None
        windspeed == IF merra_ok THEN merra_read.wind ELSE None
    IN  IF escaped THEN None
        ELSE IF ~HasData(precip, temp_max) THEN None
        ELSE Some(WeatherData(year, OrZero(temp_max), OrZero(temp_min),
                              OrZero(precip), OrZero(windspeed)))

\* main.py:270-278  what one earthaccess.search_data call can do
SearchOutcomes == {"found", "empty", "failed"}

\* The granule search_data finds for a year and a product.
Granule(y, short_name) == [year |-> y, short_name |-> short_name]

\* main.py:268-281  search_year: the list search_data returned, [] when it raised
SearchYear(y, short_name, outcome) ==
    IF outcome = "failed" THEN <<>>
    ELSE IF outcome = "found" THEN <<Granule(y, short_name)>>
    ELSE <<>>

PairOfAdjacent(gathered, i) == <<gathered[i], gathered[i + 1]>>

\* main.py:299-300  gathered[2 * i] and gathered[2 * i + 1], the year's
\* position i counted from 1 here
PairOf(gathered, i) == <<gathered[2 * i - 1], gathered[2 * i]>>

\* main.py:261-316  _search_for_years, per-year branch, for the years 1..n:
\* two searches per year in task order, gathered, read back pairwise; each
\* map holds the first granule of every non-empty result.
SearchForYears(n, outcome) ==
    LET gathered == [k \in 1..(2 * n) |->
                        LET y == (k + 1) \div 2
                            short_name == IF k % 2 = 1 THEN "GPM_3IMERGDF"
                                          ELSE "M2T1NXSLV"
                        IN SearchYear(y, short_name, outcome[<<y, short_name>>])]
        imerg_years == {y \in 1..n : PairOf(gathered, y)[1] # <<>>}
        merra_years == {y \in 1..n : PairOf(gathered, y)[2] # <<>>}
    IN  [imerg |-> [y \in imerg_years |-> PairOf(gathered, y)[1][1]],
         merra |-> [y \in merra_years |-> PairOf(gathered, y)[2][1]]]

\* The observations and responses handed to _compare_layers in PureSpec
CompareObs ==
    {WeatherData(1, t, 2000, p, 500) : t \in {3000, 3003}, p \in {0, 1, 4}}
CompareData == UNION {[1..n -> CompareObs] : n \in 0..MaxData}
CompareInputs ==
    {NoResponse}
        \cup {[data |-> d, source |-> L1Source, success |-> ok, error |-> "None"] :
                d \in CompareData, ok \in BOOLEAN}

\* test_main.py:34-45  sample_weather_data
SampleWeatherData ==
    <<WeatherData(2015, 3200, 1800, 50, 1200), WeatherData(2016, 3800, 2200, 250, 800),
      WeatherData(2017, 2900, 1600, 20, 1800), WeatherData(2018, 3600, 2000, 120, 1200),
      WeatherData(2019, 3300, 1900, 80, 1000), WeatherData(2020, 3500, 2100, 150, 1400),
      WeatherData(2021, 3100, 1700, 0, 1600), WeatherData(2022, 3700, 2300, 0, 900),
      WeatherData(2023, 3000, 1500, 0, 1700), WeatherData(2024, 3400, 1900, 0, 1100)>>

\* main.py:1621 and 1717  the predicates handed to calculate_probability:
\* "x.precip > threshold" and "x.temp_min < threshold"
RainCondition == [field |-> "precip", op |-> ">", threshold |-> 10]
ColdCondition == [field |-> "temp_min", op |-> "<", threshold |-> 500]

HoldsInclusive(item, cond) ==
    IF cond.op = ">" THEN item[cond.field] >= cond.threshold
    ELSE item[cond.field] <= cond.threshold

\* main.py:1569  condition_func(item)
Holds(item, cond) ==
    IF cond.op = ">" THEN item[cond.field] > cond.threshold
    ELSE item[cond.field] < cond.threshold

\* main.py:1569  sum(1 for item in data if condition_func(item))
RECURSIVE MatchingCount(_, _)
MatchingCount(data, cond) ==
    IF data = <<>> THEN 0
    ELSE (IF Holds(data[1], cond) THEN 1 ELSE 0) + MatchingCount(Tail(data), cond)

\* main.py:1565-1570  calculate_probability; the float it returns is written
\* as the fraction num / den
CalculateProbability(data, cond) ==
    IF Len(data) = 0 THEN [num |-> 0, den |-> 1]
    ELSE [num |-> MatchingCount(data, cond), den |-> Len(data)]

\* The lists handed to calculate_probability in PureSpec
ProbObs ==
    {WeatherData(1, 3000, t, p, 500) : t \in {200, 500}, p \in {0, 10, 50}}
ProbData ==
    UNION {[1..n -> ProbObs] : n \in 0..MaxProbLen} \cup {SampleWeatherData}

\* main.py:1002-1077  what _fetch_power_data can do in PureSpec
PowerOutcomes ==
    {PowerReturns(ObsSeq(k)) : k \in 0..MaxPureYears}
        \cup {PowerRaises(msg) : msg \in PowerMessages}

\* One call of one function; nothing else runs.
PureInit ==
    /\ years_back = MaxPureYears
    /\ max_concurrency = 1
    /\ early_return_count = 1
    /\ raising = {}
    /\ pure = NoCall
    /\ cache_ttl_seconds = DefaultCacheTTL
    /\ NoControlled
    /\ NoEndpoint
    /\ ServiceInit({})
    /\ CacheEmpty
    /\ OrchOff

\* main.py:360-406  _extract_for_year_blocking is called
ExtractYear ==
    /\ pure = NoCall
    /\ \E imerg_file \in BOOLEAN, merra_file \in BOOLEAN,
          imerg_read \in ImergReads, merra_read \in MerraReads :
          pure' = [fn |-> "extract",
                   in |-> [imerg_file |-> imerg_file, merra_file |-> merra_file,
                           imerg_read |-> imerg_read, merra_read |-> merra_read],
                   out |-> ExtractForYearBlocking(1, imerg_file, merra_file,
                                                  imerg_read, merra_read)]
    /\ UNCHANGED <<config, http, svars, cvars, ovars, controlled>>

\* main.py:261-316  _search_for_years is called
SearchYears ==
    /\ pure = NoCall
    /\ \E n \in 1..MaxPureYears :
          \E outcome \in [(1..n) \X Products -> SearchOutcomes] :
             pure' = [fn |-> "search", in |-> [n |-> n, outcome |-> outcome],
                      out |-> SearchForYears(n, outcome)]
    /\ UNCHANGED <<config, http, svars, cvars, ovars, controlled>>

\* main.py:1311-1331  _compare_layers is called
Compare ==
    /\ pure = NoCall
    /\ \E l1 \in CompareInputs, l2 \in CompareInputs :
          pure' = [fn |-> "compare", in |-> [layer1 |-> l1, layer2 |-> l2],
                   out |-> CompareLayers(l1, l2)]
    /\ UNCHANGED <<config, http, svars, cvars, ovars, controlled>>

\* main.py:1565-1570  calculate_probability is called
Probability ==
    /\ pure = NoCall
    /\ \E data \in ProbData, cond \in {RainCondition, ColdCondition} :
          pure' = [fn |-> "probability", in |-> [data |-> data, cond |-> cond],
                   out |-> CalculateProbability(data, cond)]
    /\ UNCHANGED <<config, http, svars, cvars, ovars, controlled>>

\* main.py:965-1000  POWERService.fetch is called
PowerFetchCall ==
    /\ pure = NoCall
    /\ \E outcome \in PowerOutcomes :
          pure' = [fn |-> "power_fetch", in |-> outcome, out |-> PowerFetch(outcome)]
    /\ UNCHANGED <<config, http, svars, cvars, ovars, controlled>>

PureNext ==
    \/ ExtractYear
    \/ SearchYears
    \/ Compare
    \/ Probability
    \/ PowerFetchCall

PureSpec == PureInit /\ [][PureNext]_vars

\* ============================================ _fetch_single_day_controlled
\* Several concurrent calls of the shim on one service. Each call enters the
\* service's semaphore (main.py:601-603) and, inside it, calls
\* _fetch_single_day and with it _extract_for_year, which enters the same
\* semaphore again (main.py:599, 357-358). Which waiting call gets a freed
\* slot depends on the interpreter's wake-up order: any order is allowed.
ControlledInit ==
    /\ years_back = 1
    /\ max_concurrency \in 1..MaxLimit
    /\ early_return_count = 1
    /\ raising = {}
    /\ pure = NoCall
    /\ cache_ttl_seconds = DefaultCacheTTL
    /\ ServiceInit({})
    /\ CacheEmpty
    /\ OrchOff
    /\ NoEndpoint
    /\ controlled = [c \in Calls |-> "start"]

\* main.py:602  "async with self.semaphore" of _fetch_single_day_controlled
ControlledEnter(c) ==
    /\ controlled[c] = "start"
    /\ semaphore > 0
    /\ semaphore' = semaphore - 1
    /\ controlled' = [controlled EXCEPT ![c] = "outer"]
    /\ UNCHANGED <<config, http, pure, pc, tasks, thread, doneq, todo, results, expired,
                   how, response, exc, cvars, ovars>>

\* main.py:603, 599, 357  the call goes on into _extract_for_year and enters
\* the semaphore a second time; the read starts in a worker thread
ControlledExtract(c) ==
    /\ controlled[c] = "outer"
    /\ semaphore > 0
    /\ semaphore' = semaphore - 1
    /\ controlled' = [controlled EXCEPT ![c] = "reading"]
    /\ UNCHANGED <<config, http, pure, pc, tasks, thread, doneq, todo, results, expired,
                   how, response, exc, cvars, ovars>>

\* main.py:358, 602  the read returns and both "async with" blocks are left
ControlledReturn(c) ==
    /\ controlled[c] = "reading"
    /\ semaphore' = semaphore + 2
    /\ controlled' = [controlled EXCEPT ![c] = "done"]
    /\ UNCHANGED <<config, http, pure, pc, tasks, thread, doneq, todo, results, expired,
                   how, response, exc, cvars, ovars>>

ControlledNext ==
    \/ \E c \in Calls : ControlledEnter(c)
    \/ \E c \in Calls : ControlledExtract(c)
    \/ \E c \in Calls : ControlledReturn(c)

\* The event loop runs every call that can go on.
ControlledSpec ==
    ControlledInit /\ [][ControlledNext]_vars /\ WF_vars(ControlledNext)

\* ===================================================== get_rain_probability
\* One request to /probability/rain: the handler refuses it without an
\* orchestrator, or awaits orchestrator.fetch (the actions of OrchNext) and
\* answers from the record. The query's lat, lon, month and day are only
\* passed on and echoed; they are left out. Precipitation and the threshold
\* are whole hundredths of a millimetre, the probability whole thousandths.

\* main.py:1099  the years_back of a fetch called without one (main.py:1612)
DefaultYearsBack == 10

\* main.py:1603  threshold: Query(0.1, ge=0), in hundredths of a millimetre
Thresholds == {0, 10, 2500}

\* main.py:1621  lambda x: x.precip > threshold
RainOver(threshold) == [field |-> "precip", op |-> ">", threshold |-> threshold]

\* main.py:1624  round(probability, 3), in thousandths
RoundedProbability(p) == RoundHalfEven(1000 * p.num, p.den)

GetRainProbabilityRejectsEmpty(orch, m, raises, result, threshold) ==
    IF ~orch THEN [status |-> 503, detail |-> "Services not available"]
    ELSE IF raises THEN [status |-> 500]
    ELSE IF Len(SelectLayer(result).data) = 0 THEN [status |-> 500]
    ELSE [status |-> 200,
          probability |-> RoundedProbability(
              CalculateProbability(SelectLayer(result).data, RainOver(threshold))),
          source |-> SelectLayer(result).source,
          threshold |-> threshold,
          data_points |-> Len(SelectLayer(result).data),
          mode |-> m]

\* main.py:1597-1644  get_rain_probability once orchestrator.fetch has
\* returned `result` or has raised (`raises`); the 500 answer carries str(e),
\* left out here. "layers" and the fallback fields are the mode's metadata
\* (main.py:1633-1638).
GetRainProbability(orch, m, raises, result, threshold) ==
    IF ~orch THEN [status |-> 503, detail |-> "Services not available"]
    ELSE IF raises THEN [status |-> 500]
    ELSE LET sel == SelectLayer(result)
             response200 ==
                 [status |-> 200,
                  probability |-> RoundedProbability(
                      CalculateProbability(sel.data, RainOver(threshold))),
                  source |-> sel.source,
                  threshold |-> threshold,
                  data_points |-> Len(sel.data),
                  mode |-> m]
         IN  IF m = "hybrid"
             THEN [status |-> 200, probability |-> response200.probability,
                   source |-> sel.source, threshold |-> threshold,
                   data_points |-> Len(sel.data), mode |-> m,
                   layers |-> result]
             ELSE IF m = "precise" /\ result.fallback_used
             THEN [status |-> 200, probability |-> response200.probability,
                   source |-> sel.source, threshold |-> threshold,
                   data_points |-> Len(sel.data), mode |-> m,
                   fallback_used |-> TRUE,
                   fallback_reason |-> result.fallback_reason]
             ELSE response200

\* The request has reached the handler; startup_event has set the global
\* orchestrator or has failed and left it None (main.py:1536-1559).
EndpointInit ==
    /\ years_back = DefaultYearsBack
    /\ early_return_count \in 1..MaxOrchEarly
    /\ max_concurrency = 1
    /\ raising \in SUBSET {"earthdata", "power"}
    /\ pure = NoCall
    /\ cache_ttl_seconds = DefaultCacheTTL
    /\ NoControlled
    /\ orchestrator \in BOOLEAN
    /\ http = NoAnswer
    /\ ServiceInit({})
    /\ CacheEmpty
    /\ layer1_run = NoRun
    /\ mode \in {"fast", "precise", "hybrid"}
    /\ opc = "request"
    /\ layer1_task = "none"
    /\ layer1_result = NoResponse
    /\ layer1_response = NoResponse
    /\ layer2_task = "none"
    /\ layer2_response = NoResponse
    /\ l1_calls = 0
    /\ l2_calls = 0
    /\ record = NoRecord

\* main.py:1608-1609  "if not orchestrator: raise HTTPException(503, ...)"
RainUnavailable ==
    /\ opc = "request"
    /\ ~orchestrator
    /\ \E threshold \in Thresholds :
          http' = GetRainProbability(orchestrator, mode, FALSE, record, threshold)
    /\ opc' = "refused"
    /\ UNCHANGED <<config, pure, controlled, svars, cvars, layer1_run, mode, layer1_task,
                   layer1_result, layer1_response, layer2_task, layer2_response,
                   l1_calls, l2_calls, record>>

\* main.py:1608-1612  the handler goes on to "await orchestrator.fetch(...)"
RainCallsFetch ==
    /\ opc = "request"
    /\ orchestrator
    /\ opc' = "start"
    /\ UNCHANGED <<config, http, pure, controlled, svars, cvars, layer1_run, mode, layer1_task,
                   layer1_result, layer1_response, layer2_task, layer2_response,
                   l1_calls, l2_calls, record>>

\* main.py:1612-1644  fetch has returned its record or has raised, and the
\* handler answers
RainAnswers ==
    /\ opc \in {"done", "raised"}
    /\ http = NoAnswer
    /\ \E threshold \in Thresholds :
          http' = GetRainProbability(orchestrator, mode, opc = "raised", record,
                                     threshold)
    /\ UNCHANGED <<config, pure, controlled, svars, cvars, ovars>>

EndpointNext ==
    \/ RainUnavailable
    \/ RainCallsFetch
    \/ RainAnswers
    \/ OrchNext

EndpointSpec == EndpointInit /\ [][EndpointNext]_vars

\* ================================================= one request, end to end
\* HybridOrchestrator.fetch for one request, with the precise path run by the
\* collector of Spec (call 1 of the service) instead of being seen through
\* its results. The request is not cancelled from outside. asyncio.wait_for
\* is the one of Python 3.11.

\* The WeatherData of the years the collector returned.
ObsOfYears(ys) ==
    [i \in 1..Len(ys) |->
        WeatherData(ys[i], 3000 + (7 * ys[i] * ys[i]), 2000, 3 * ys[i] * ys[i], 500)]

\* main.py:180-193  the LayerResponse of call 1 as the orchestrator gets it
Layer1ResultOf(r) == [r EXCEPT !.data = ObsOfYears(r.data)]

RequestInit ==
    /\ years_back \in 1..MaxYears
    /\ max_concurrency \in 1..MaxConcurrency
    /\ early_return_count \in 1..MaxEarly
    /\ Plain
    /\ ServiceInit({1})
    /\ CacheEmpty
    /\ layer1_run = NoRun
    /\ mode \in {"fast", "precise", "hybrid"}
    /\ opc = "start"
    /\ layer1_task = "none"
    /\ layer1_result = NoResponse
    /\ layer1_response = NoResponse
    /\ layer2_task = "none"
    /\ layer2_response = NoResponse
    /\ l1_calls = 0
    /\ l2_calls = 0
    /\ record = NoRecord

\* The steps of fetch_with_timeout and of its collector, once the
\* orchestrator has created the layer1 task (main.py:1136-1140, 1203-1207)
CollectorSteps ==
    /\ layer1_task \in {"running", "cancelled"}
    /\ \/ StartCached(1)
       \/ StartSearch(1)
       \/ CollectorRaises(1)
       \/ SearchDone(1)
       \/ Consume(1)

\* The steps of the extraction tasks and of their worker threads
\* (main.py:352-358)
ExtractionSteps ==
    \E y \in Years :
        \/ Acquire(1, y)
        \/ Finish(1, y)
        \/ CancelDelivered(1, y)
        \/ ThreadEnds(1, y)

\* The 25 s of fetch_with_timeout pass (main.py:177, 186-189, 1138, 1205)
InnerDeadline ==
    /\ layer1_task = "running"
    /\ \/ DeadlineInSearch(1)
       \/ DeadlineInLoop(1)

\* fetch_with_timeout returns and the layer1 task is done (main.py:180-193)
Layer1Returns ==
    /\ layer1_task = "running"
    /\ pc[1] \in {"done", "raised"}
    /\ layer1_task' = "finished"
    /\ layer1_result' = Layer1ResultOf(response[1])
    /\ layer1_run' = [handles |-> Cardinality({y \in Years : tasks[1][y] # "none"}),
                      readable |-> Cardinality({y \in Years : tasks[1][y] = "obs"}),
                      expired |-> expired[1]]
    /\ UNCHANGED <<config, http, pure, controlled, svars, cvars, mode, opc, layer1_response,
                   layer2_task, layer2_response, l1_calls, l2_calls, record>>

\* The orchestrator's own wait_for runs out (main.py:1145, 1153-1163, 1219,
\* 1229-1242). Its 45 s, or its 25 s counted from the return of the POWER
\* call, end after the 25 s of fetch_with_timeout, so the layer1 task still
\* runs only because the collector swallowed that deadline in its loop
\* (main.py:244-245). The task is cancelled where it waits for the collector
\* and ends at once; the collector is not cancelled a second time and goes
\* on by itself.
OuterTimeout ==
    /\ expired[1]
    /\ pc[1] = "loop"
    /\ \/ PreciseOuterTimeout
       \/ HybridOuterTimeout

\* What goes on by itself: the event loop runs every coroutine that can go
\* on, and searches, reads and the POWER call come to an end.
RequestProgress ==
    \/ FastStart
    \/ FastReturn
    \/ PreciseStart
    \/ HybridStart
    \/ PreciseLayer1Returned
    \/ PreciseFallbackReturn
    \/ HybridLayer2Returned
    \/ HybridLayer1Returned
    \/ Layer1Returns
    \/ CollectorSteps
    \/ ExtractionSteps

RequestNext ==
    \/ RequestProgress
    \/ InnerDeadline
    \/ OuterTimeout

RequestSpec ==
    RequestInit /\ [][RequestNext]_vars /\ WF_vars(RequestProgress)

\* ================================================================ claims

\* C1: at no point do more than max_concurrency per-year extractions hold the
\* service's semaphore, however many years and however many concurrent calls.
C1_SemaphoreBound ==
    /\ Cardinality(AllHolders) <= max_concurrency
    /\ semaphore >= 0

\* Two calls hold permits at once, every permit is taken and a further task
\* of a call with years_back >= max_concurrency is kept waiting.
C1_Witness ==
    /\ years_back >= max_concurrency
    /\ Cardinality(AllHolders) = max_concurrency
    /\ \A b \in Batches : Holders(b) # {}
    /\ \E b \in Batches, y \in Years : tasks[b][y] = "pending"

\* C2: the collector returns between 0 and years_back observations, and the
\* threshold early_return_count is reached exactly when it returns early,
\* with a count in [early_return_count, years_back].
C2_CollectorCount ==
    \A b \in Batches :
        /\ Len(results[b]) \in 0..years_back
        /\ Len(results[b]) >= early_return_count <=> how[b] = "early"
        /\ how[b] = "early" =>
              /\ early_return_count <= years_back
              /\ Len(results[b]) \in early_return_count..years_back
              /\ pc[b] = "done"

\* An early return with threshold 2 out of 3 years.
C2_Witness ==
    /\ years_back = 3 /\ early_return_count = 2
    /\ how[1] = "early" /\ Len(results[1]) = 2

\* C3: on reaching early_return_count the collector cancels every task that
\* is not done and returns, and from then on no extraction of that call that
\* has not started its read ever starts it.
C3_NoReadAfterEarlyReturn ==
    [][\A b \in Batches :
          /\ how'[b] = "early" =>
                /\ pc'[b] = "done"
                /\ \A y \in Years : tasks'[b][y] \notin {"pending", "reading"}
          /\ how[b] = "early" =>
                \A y \in Years : thread[b][y] = "idle" => thread'[b][y] = "idle"]_vars

\* After an early return one task was cancelled before its read and the
\* worker thread of another, cancelled in flight, is still running.
C3_Witness ==
    /\ how[1] = "early"
    /\ \E y \in Years : tasks[1][y] = "cancelled" /\ thread[1][y] = "idle"
    /\ \E y \in Years : tasks[1][y] \in {"cancelling", "cancelled"}
                        /\ thread[1][y] = "running"

\* C4: when the deadline expires while the collector is running,
\* fetch_with_timeout returns the Timeout outcome without waiting for the
\* outstanding extractions.
C4_TimeoutAtDeadline ==
    \A b \in Batches :
        expired[b] => pc[b] = "done" /\ response[b] = TimeoutResponse

\* The precise path of a finished Precise request failed or timed out.
PreciseFailed ==
    \/ layer1_task = "cancelled"
    \/ layer1_result.error \in {"Timeout"} \cup ErrorMessages

C6_HybridBothLayers ==
    (mode = "hybrid" /\ opc # "start") =>
        /\ l1_calls = 1 /\ l2_calls = 1
        /\ opc = "done" =>
              /\ {"layer1", "layer2", "comparison", "primary"} \subseteq DOMAIN record
              /\ record.layer1.data = layer1_response.data
              /\ record.layer1.success = layer1_response.success
              /\ record.layer2.data = layer2_response.data
              /\ record.layer2.success = layer2_response.success

\* A Hybrid record after the precise path timed out and the Fast source failed.
C6_Witness ==
    /\ mode = "hybrid" /\ opc = "done"
    /\ layer1_task = "cancelled"
    /\ ~layer2_response.success
    /\ record.layer1.error = "Timeout - exceeded 25s limit"

\* C7: Fast mode never calls the precise path, calls the Fast source once,
\* and its result is primary as it is, with fallback_used false.
C7_FastOnly ==
    mode = "fast" =>
        /\ l1_calls = 0 /\ layer1_task = "none"
        /\ opc = "done" =>
              /\ l2_calls = 1
              /\ record.primary = [data |-> layer2_response.data,
                                   source |-> L2Source,
                                   success |-> layer2_response.success]
              /\ record.fallback_used = FALSE

\* A Fast record whose Fast source failed.
C7_Witness ==
    /\ mode = "fast" /\ opc = "done"
    /\ ~layer2_response.success
    /\ record.primary.source = L2Source

\* C8: in Hybrid mode primary is the precise result exactly when the precise
\* path succeeded with data, and the Fast result otherwise; with 4 precise
\* observations below the minimum viable count and 10 Fast ones, primary is
\* the Fast result and both results are in the record.
C8_HybridPrimary ==
    (mode = "hybrid" /\ opc = "done") =>
        /\ record.primary =
              IF layer1_response.success /\ Len(layer1_response.data) > 0
              THEN [data |-> layer1_response.data, source |-> layer1_response.source,
                    success |-> TRUE]
              ELSE [data |-> layer2_response.data, source |-> L2Source,
                    success |-> layer2_response.success]
        /\ (/\ Len(layer1_response.data) = 4
            /\ 4 < Max(3, Min(early_return_count, years_back))
            /\ Len(layer2_response.data) = 10) =>
              /\ record.primary.source = L2Source
              /\ Len(record.primary.data) = 10
              /\ record.layer1.data_points = 4
              /\ record.layer2.data_points = 10

\* Scenario C with the deployed values: 4 precise observations, 10 Fast ones.
C8_Witness ==
    /\ mode = "hybrid" /\ opc = "done"
    /\ years_back = 10 /\ early_return_count = 7
    /\ Len(layer1_response.data) = 4
    /\ Len(layer2_response.data) = 10
    /\ record.primary.source = L2Source

\* No source called for the request returned a successful result.
BothFailed == ~layer1_response.success /\ ~layer2_response.success

\* C9 as stated: primary holds data whenever either source produced an
\* observation, even one flagged unsuccessful, and when both failed primary
\* is present with success false.
C9_PrimaryWheneverAnyData ==
    opc = "done" =>
        /\ (Len(layer1_response.data) > 0 \/ Len(layer2_response.data) > 0) =>
              Len(record.primary.data) > 0
        /\ BothFailed => ("primary" \in DOMAIN record /\ ~record.primary.success)

\* C9 amended: primary holds data whenever the precise result is successful
\* with data or the Fast result holds data; the observations of an
\* unsuccessful precise result are not used.
C9_PrimaryWhenUsable ==
    opc = "done" =>
        /\ (Layer1Usable(layer1_response) \/ Len(layer2_response.data) > 0) =>
              Len(record.primary.data) > 0
        /\ BothFailed => ("primary" \in DOMAIN record /\ ~record.primary.success)

\* The precise result is usable, the Fast source failed, primary holds the
\* precise data.
C9_Witness ==
    /\ mode = "hybrid" /\ opc = "done"
    /\ Layer1Usable(layer1_response)
    /\ ~layer2_response.success
    /\ Len(record.primary.data) > 0

\* C10: whenever neither source produced an observation, the record is a
\* failed one: primary.success is false, also when the Fast source call
\* completed normally with zero observations.
C10_NoDataMeansFailed ==
    opc = "done" =>
        ((Len(layer1_response.data) = 0 /\ Len(layer2_response.data) = 0) =>
            ~record.primary.success)

\* C11: with the two services as implemented, HybridOrchestrator.fetch never
\* raises and, unless the request itself is cancelled, is never stuck; in
\* every mode, whatever the precise path and the Fast source did, it ends
\* with a record of the requested mode that holds a primary entry, and a
\* precise path that gave nothing usable leads to the Fast source.
C11_AlwaysARecord ==
    raising = {} =>
        /\ opc # "raised"
        /\ opc \notin {"done", "cancelled"} => ENABLED OrchNext
        /\ opc = "done" =>
              /\ record # NoRecord
              /\ record.mode = mode
              /\ "primary" \in DOMAIN record
              /\ record.primary.success \in BOOLEAN
              /\ (mode = "precise" /\ ~Layer1Usable(layer1_response)) =>
                    (l2_calls = 1 /\ record.fallback_used)

\* A Precise request whose collector raised and whose Fast source failed as
\* well: the record is there, flagged unsuccessful.
C11_Witness ==
    /\ raising = {}
    /\ mode = "precise" /\ opc = "done"
    /\ layer1_response = ErrorResponse
    /\ ~layer2_response.success
    /\ record.fallback_used /\ ~record.primary.success

\* C12: a call that finds the entry of its key younger than the TTL goes on
\* with the stored maps and no search is made; a call that finds no entry or
\* an expired one searches every (year, product) once and, when the search
\* returns, the entry is exactly the new maps with the time of the store.
C12_CacheIdempotence ==
    [][\A b \in Batches :
          /\ (pc[b] = "idle" /\ pc'[b] # "idle") =>
                IF cache # NoEntry /\ now - cache.ts < CacheTTL
                THEN /\ search_calls' = search_calls
                     /\ cache' = cache
                     /\ handles'[b] = cache
                     /\ pc'[b] \in {"loop", "done"}
                ELSE pc'[b] = "search"
          /\ (pc[b] = "search" /\ pc'[b] # "search" /\ how'[b] # "cancelled") =>
                /\ \A yp \in DOMAIN search_calls :
                      search_calls'[yp] = search_calls[yp] + 1
                /\ cache' = [imerg |-> found'[b].imerg, merra |-> found'[b].merra,
                             ts |-> now]
                /\ handles'[b] = found'[b]]_vars

\* The second call, 300 s after the first one stored its maps, went on with
\* them: every (year, product) was searched once.
C12_Witness ==
    /\ found[1] # NoMaps /\ found[2] = NoMaps
    /\ WithHandle(found[1]) # {}
    /\ handles[2] = found[1]
    /\ now = found[1].ts + TickSeconds
    /\ \A yp \in DOMAIN search_calls : search_calls[yp] = 1

\* C13: the entry of the key is at any moment either absent or the complete
\* triple one search stored, never a mixture of two searches' maps, and once
\* two calls that both missed have stored, it is the triple of the later one.
C13_LastWriterWins ==
    /\ \/ cache = NoEntry
       \/ \E b \in Batches : found[b] # NoMaps /\ cache = found[b]
    /\ \A b \in Batches : found[b] # NoMaps => cache.ts >= found[b].ts

\* Both calls missed at the same time and searched; their searches found
\* different maps, and the entry is the second call's.
C13_Witness ==
    /\ found[1] # NoMaps /\ found[2] # NoMaps
    /\ found[1].ts = found[2].ts
    /\ found[1].imerg # found[2].imerg
    /\ found[1].merra # found[2].merra
    /\ found[1].imerg \cup found[2].imerg # found[2].imerg
    /\ cache = found[2]

\* The precise path of a finished Precise request found a handle for each of
\* the 10 years, every read yields an observation, and neither a deadline nor
\* an error came up.
ScenarioA ==
    /\ mode = "precise" /\ opc = "done"
    /\ years_back = 10
    /\ layer1_task = "finished"
    /\ layer1_run = [handles |-> 10, readable |-> 10, expired |-> FALSE]

\* C14 as stated: in scenario A, Precise mode returns the precise result as
\* primary, fallback_used false, 10 data points.
C14_ScenarioATen ==
    ScenarioA =>
        /\ record.primary.source = L1Source
        /\ record.fallback_used = FALSE
        /\ Len(record.primary.data) = 10

\* C14 amended: the collector returns early with early_return_count
\* observations; from 3 on that is a success, and primary is the precise
\* result with min(early_return_count, 10) data points and no fallback.
C14_ScenarioAEarly ==
    (ScenarioA /\ early_return_count >= 3) =>
        /\ record.primary.source = L1Source
        /\ record.primary.success
        /\ record.fallback_used = FALSE
        /\ Len(record.primary.data) = Min(early_return_count, 10)
        /\ l2_calls = 0

\* Scenario A with the deployed early_return_count of 7: 7 data points.
C14_Witness ==
    /\ ScenarioA /\ early_return_count = 7
    /\ Len(record.primary.data) = 7
    /\ record.fallback_used = FALSE

\* C15: when the precise path of a Precise request timed out, on the inner
\* or on the outer deadline, primary is the Fast result, fallback_used is
\* true and fallback_reason is a timeout description.
C15_TimeoutFallback ==
    (/\ mode = "precise" /\ opc = "done"
     /\ (layer1_run.expired \/ layer1_task = "cancelled")) =>
        /\ record.primary.source = L2Source
        /\ record.fallback_used = TRUE
        /\ record.fallback_reason \in {"Timeout", "Timeout after 45 seconds"}

RunningReads == {<<b, y>> \in Batches \X Years : thread[b][y] = "running"}

\* C17: never more than max_concurrency extraction reads run at once,
\* counting the reads whose task was cancelled in flight, across all calls.
C17_RunningReadsBound == Cardinality(RunningReads) <= max_concurrency

\* C18: free permits plus holders is max_concurrency at every moment, a read
\* is only started by a task that holds a permit, and once no task is
\* waiting, reading or being cancelled all permits are free.
C18_PermitAccounting ==
    /\ semaphore + Cardinality(AllHolders) = max_concurrency
    /\ \A b \in Batches, y \in Years :
          /\ tasks[b][y] \in {"none", "pending"} => thread[b][y] = "idle"
          /\ (tasks[b][y] = "reading" => thread[b][y] = "running")
    /\ (\A b \in Batches, y \in Years :
            tasks[b][y] \notin {"pending", "reading", "cancelling"}) =>
          semaphore = max_concurrency

\* Both calls are over; tasks ended with data, with an error and by a
\* cancellation in flight, and every permit is back.
C18_Witness ==
    /\ \A b \in Batches : pc[b] = "done"
    /\ \A b \in Batches, y \in Years :
          tasks[b][y] \notin {"pending", "reading", "cancelling"}
    /\ \E b \in Batches, y \in Years : tasks[b][y] = "obs"
    /\ \E b \in Batches, y \in Years : tasks[b][y] = "error"
    /\ \E b \in Batches, y \in Years :
          tasks[b][y] = "cancelled" /\ thread[b][y] # "idle"
    /\ semaphore = max_concurrency

\* C19: the collector returns in the very step in which it requests the
\* cancellation of its unfinished tasks, and whatever those tasks and their
\* threads do afterwards, the list and the response it returned stay as
\* they are.
C19_NonBlockingCancel ==
    [][\A b \in Batches :
          /\ (\E y \in Years : /\ tasks[b][y] \in {"pending", "reading"}
                               /\ tasks'[b][y] \in {"cancelled", "cancelling"}) =>
                (pc[b] = "loop" /\ pc'[b] = "done" /\ response'[b] # NoResponse)
          /\ pc[b] = "done" =>
                /\ pc'[b] = "done"
                /\ results'[b] = results[b]
                /\ response'[b] = response[b]]_vars

\* The collector has returned early; one cancelled task still waits for its
\* CancelledError and the thread of another has ended since, its outcome
\* in nobody's list.
C19_Witness ==
    /\ pc[1] = "done" /\ how[1] = "early"
    /\ \E y \in Years : tasks[1][y] = "cancelling" /\ thread[1][y] = "running"
    /\ \E y \in Years : tasks[1][y] = "cancelled" /\ thread[1][y] = "finished"
    /\ Len(results[1]) = 1

\* C20: when the threshold is not reached, the list the collector returns
\* holds exactly the years whose extraction ended with an observation, each
\* once.
C20_AllObservationsReturned ==
    \A b \in Batches :
        how[b] = "exhausted" =>
            /\ {results[b][i] : i \in 1..Len(results[b])} =
                  {y \in Years : tasks[b][y] = "obs"}
            /\ Len(results[b]) = Cardinality({y \in Years : tasks[b][y] = "obs"})

\* C28: whenever fetch has finished in Precise or Hybrid mode (it returned,
\* the Fast source call raised, or the request was cancelled), the
\* precise-path task it created has completed or has been cancelled. The
\* code does not keep this: in Hybrid mode an exception or a cancellation at
\* "await layer2_task" (main.py:1213) leaves fetch with layer1_task running.
C28_TaskNotLeaked ==
    (mode \in {"precise", "hybrid"} /\ opc \in {"done", "raised", "cancelled"}) =>
        layer1_task \in {"finished", "cancelled"}

\* C29: in Hybrid mode, when the precise-path call and the Fast-source call
\* both raise, fetch stops at the first await that hands it an exception and
\* raises; it never goes past that await and never returns a record.
C29_BothRaise ==
    (mode = "hybrid" /\ raising = {"earthdata", "power"}) =>
        /\ opc \in {"start", "hybrid_await2", "raised", "cancelled"}
        /\ record = NoRecord
        /\ opc = "hybrid_await2" => ENABLED HybridLayer2Returned

\* A Hybrid request whose two calls raise has ended with the exception of the
\* Fast-source call; the precise-path call had raised too.
C29_Witness ==
    /\ mode = "hybrid" /\ raising = {"earthdata", "power"}
    /\ opc = "raised"
    /\ layer2_response = Raised
    /\ layer1_result = Raised
    /\ record = NoRecord

\* C21: once the collector has its handle maps, it has launched one extraction
\* task for each requested year that has a precipitation or a
\* temperature/wind handle and none for any other year; when no year has a
\* handle it has returned an empty list, with no task launched and no
\* semaphore slot taken.
C21_OneTaskPerHandledYear ==
    \A b \in Batches :
        (pc[b] \in {"loop", "done"} /\ how[b] # "cancelled") =>
            LET handled == {y \in Years : y \in handles[b].imerg
                                            \/ y \in handles[b].merra}
            IN  /\ {y \in Years : tasks[b][y] # "none"} = handled
                /\ todo[b] = Cardinality(handled)
                /\ handled # {} => pc[b] = "loop"
                /\ handled = {} =>
                      /\ pc[b] = "done" /\ how[b] = "empty"
                      /\ response[b].data = <<>>
                      /\ \A y \in Years : thread[b][y] = "idle"
                      /\ semaphore = max_concurrency

\* One call launched a task for a year with only a precipitation handle and
\* none for a year without a handle; another call found no handle at all and
\* returned the empty list.
C21_Witness ==
    \E b \in Batches, c \in Batches :
        /\ pc[b] = "loop"
        /\ \E y \in Years : /\ y \in handles[b].imerg /\ y \notin handles[b].merra
                             /\ tasks[b][y] = "pending"
        /\ \E y \in Years : /\ y \notin handles[b].imerg \cup handles[b].merra
                             /\ tasks[b][y] = "none"
        /\ pc[c] = "done" /\ how[c] = "empty"
        /\ handles[c].imerg \cup handles[c].merra = {}

\* What the two reads of the extraction called in PureSpec yielded.
PrecipRead ==
    pure.in.imerg_file /\ ~pure.in.imerg_read.raises /\ pure.in.imerg_read.p # None
MerraReturned == pure.in.merra_file /\ ~pure.in.merra_read.raises
TempsRead ==
    MerraReturned /\ pure.in.merra_read.tmax # None /\ pure.in.merra_read.tmin # None
WindRead == MerraReturned /\ pure.in.merra_read.wind # None
ImergFailed == pure.in.imerg_file /\ pure.in.imerg_read.raises
MerraFailed == pure.in.merra_file /\ pure.in.merra_read.raises

C24_SearchPerPair ==
    pure.fn = "search" =>
        \A y \in 1..pure.in.n :
            /\ (y \in DOMAIN pure.out.imerg) <=>
                  (pure.in.outcome[<<y, "GPM_3IMERGDF">>] = "found")
            /\ (y \in DOMAIN pure.out.merra) <=>
                  (pure.in.outcome[<<y, "M2T1NXSLV">>] = "found")
            /\ y \in DOMAIN pure.out.imerg =>
                  pure.out.imerg[y] = [year |-> y, short_name |-> "GPM_3IMERGDF"]
            /\ y \in DOMAIN pure.out.merra =>
                  pure.out.merra[y] = [year |-> y, short_name |-> "M2T1NXSLV"]

\* Two years: the precipitation search of the first failed and the
\* temperature/wind search of the second found nothing; each map holds the
\* other year only.
C24_Witness ==
    /\ pure.fn = "search" /\ pure.in.n = 2
    /\ pure.in.outcome[<<1, "GPM_3IMERGDF">>] = "failed"
    /\ pure.in.outcome[<<1, "M2T1NXSLV">>] = "found"
    /\ pure.in.outcome[<<2, "GPM_3IMERGDF">>] = "found"
    /\ pure.in.outcome[<<2, "M2T1NXSLV">>] = "empty"
    /\ DOMAIN pure.out.imerg = {2}
    /\ DOMAIN pure.out.merra = {1}

\* A source result that exists, succeeded and has data.
UsableSide(l) == l # NoResponse /\ l.success /\ Len(l.data) > 0

\* C25: the comparison is available exactly when both source results exist,
\* both succeeded and both have data; otherwise it is {available: false} and
\* nothing else.
C25_AvailableIffBoth ==
    pure.fn = "compare" =>
        /\ pure.out.available <=>
              (UsableSide(pure.in.layer1) /\ UsableSide(pure.in.layer2))
        /\ ~pure.out.available => pure.out = [available |-> FALSE]

\* One side failed although it carries data, the other is usable: no comparison.
C25_Witness ==
    /\ pure.fn = "compare"
    /\ pure.in.layer1 # NoResponse
    /\ ~pure.in.layer1.success /\ Len(pure.in.layer1.data) > 0
    /\ UsableSide(pure.in.layer2)
    /\ pure.out = [available |-> FALSE]

\* A list in the opposite order.
Reversed(xs) == [i \in 1..Len(xs) |-> xs[Len(xs) + 1 - i]]

\* d is x / n rounded to the nearest whole number.
Nearest(d, x, n) == 2 * (IF x - d * n < 0 THEN d * n - x ELSE x - d * n) <= n

\* C26: an available comparison holds the absolute difference of the two
\* lists' mean precipitation and of their mean maximum temperature, rounded
\* to hundredths, each mean taken over the whole list (the order of a list
\* does not matter), and the length of each list; both differences are
\* non-negative and stay the same when the two sources are swapped.
C26_MeanDifference ==
    (pure.fn = "compare" /\ pure.out.available) =>
        LET d1 == pure.in.layer1.data
            d2 == pure.in.layer2.data
            n == Len(d1) * Len(d2)
            gap(f) == SumSeq(Column(d1, f)) * Len(d2) - SumSeq(Column(d2, f)) * Len(d1)
            swapped == CompareLayers(pure.in.layer2, pure.in.layer1)
            reordered == CompareLayers([pure.in.layer1 EXCEPT !.data = Reversed(d1)],
                                       pure.in.layer2)
        IN  /\ pure.out.avg_precip_diff_mm >= 0
            /\ pure.out.avg_temp_diff_c >= 0
            /\ Nearest(pure.out.avg_precip_diff_mm, Abs(gap("precip")), n)
            /\ Nearest(pure.out.avg_temp_diff_c, Abs(gap("temp_max")), n)
            /\ swapped.avg_precip_diff_mm = pure.out.avg_precip_diff_mm
            /\ swapped.avg_temp_diff_c = pure.out.avg_temp_diff_c
            /\ reordered.avg_precip_diff_mm = pure.out.avg_precip_diff_mm
            /\ reordered.avg_temp_diff_c = pure.out.avg_temp_diff_c
            /\ pure.out.data_points_l1 = Len(d1)
            /\ pure.out.data_points_l2 = Len(d2)

\* Two lists of two observations that differ at every position and have the
\* same means: both differences are 0.
C26_Witness ==
    /\ pure.fn = "compare" /\ pure.out.available
    /\ Len(pure.in.layer1.data) = 2 /\ Len(pure.in.layer2.data) = 2
    /\ \A i \in 1..2 :
          /\ pure.in.layer1.data[i].precip # pure.in.layer2.data[i].precip
          /\ pure.in.layer1.data[i].temp_max # pure.in.layer2.data[i].temp_max
    /\ pure.out.avg_precip_diff_mm = 0
    /\ pure.out.avg_temp_diff_c = 0

\* The items of the list handed to calculate_probability that satisfy the
\* predicate, written out for the two predicates of PureSpec.
Matching ==
    {i \in 1..Len(pure.in.data) :
        IF pure.in.cond = RainCondition THEN pure.in.data[i].precip > 10
        ELSE pure.in.data[i].temp_min < 500}

\* C27: calculate_probability is 0 for empty data and otherwise the number of
\* items satisfying the predicate over the number of items: within [0, 1], 1
\* when all match, 0 when none does, an item equal to the threshold not
\* matching a strict predicate, and 6/10 for the ten sample values with
\* precip > 0.1.
C27_Probability ==
    pure.fn = "probability" =>
        /\ pure.out.den > 0
        /\ 0 <= pure.out.num /\ pure.out.num <= pure.out.den
        /\ Len(pure.in.data) = 0 => pure.out.num = 0
        /\ Len(pure.in.data) > 0 =>
              /\ pure.out.num = Cardinality(Matching)
              /\ pure.out.den = Len(pure.in.data)
        /\ (Len(pure.in.data) > 0 /\ Matching = 1..Len(pure.in.data)) =>
              pure.out.num = pure.out.den
        /\ Matching = {} => pure.out.num = 0
        /\ (pure.in.cond = RainCondition
              /\ \A i \in 1..Len(pure.in.data) : pure.in.data[i].precip = 10) =>
              pure.out.num = 0
        /\ (pure.in.data = SampleWeatherData /\ pure.in.cond = RainCondition) =>
              pure.out.num * 10 = 6 * pure.out.den

\* The ten sample values with precip > 0.1: six of ten.
C27_Witness ==
    /\ pure.fn = "probability"
    /\ pure.in.data = SampleWeatherData /\ pure.in.cond = RainCondition
    /\ pure.out = [num |-> 6, den |-> 10]

\* C30: POWERService.fetch never raises; a list returned by the underlying
\* fetch, of any length, gives success=True with that list and the Fast
\* source label, and an exception, a non-200 status included, gives
\* success=False, no data and the exception's message as error.
C30_PowerCollapses ==
    pure.fn = "power_fetch" =>
        /\ pure.out # Raised
        /\ pure.out.source = L2Source
        /\ ~pure.in.raises =>
              /\ pure.out.success
              /\ pure.out.data = pure.in.data
        /\ pure.in.raises =>
              /\ ~pure.out.success
              /\ pure.out.data = <<>>
              /\ pure.out.error = pure.in.msg

\* The upstream answered with status 500.
C30_Witness ==
    /\ pure.fn = "power_fetch"
    /\ pure.in.raises /\ pure.in.msg = "POWER API returned 500"
    /\ pure.out = [data |-> <<>>, source |-> L2Source, success |-> FALSE,
                   error |-> "POWER API returned 500"]

\* The reads running under the semaphore in ControlledSpec.
ControlledReading == {c \in Calls : controlled[c] = "reading"}

\* C32: for any number of concurrent _fetch_single_day_controlled calls on
\* one service the semaphore limit is respected and every call eventually
\* completes. The code does not keep the second part: each call needs two
\* slots of the same semaphore, one inside the other, and calls that hold
\* their first slot while no slot is left wait for ever.
C32_AllControlledCallsComplete ==
    /\ [](Cardinality(ControlledReading) <= max_concurrency /\ semaphore >= 0)
    /\ <>(\A c \in Calls : controlled[c] = "done")

\* C38: a stored entry is reused exactly when its age is less than the
\* cache_ttl_seconds the service was constructed with. The code does not
\* keep this: the constructor drops the argument (main.py:130-146) and the
\* test is against the literal 600 (main.py:205).
C38_ConfiguredTTL ==
    [][\A b \in Batches :
          (pc[b] = "idle" /\ pc'[b] # "idle" /\ cache # NoEntry) =>
              ((pc'[b] # "search") <=> (now - cache.ts < cache_ttl_seconds))]_vars

\* C35: a run that is cancelled during its search leaves the entry of the
\* key exactly as it was, a cancelled run does nothing afterwards, and every
\* change of the cache is the store of a run whose search returned in that
\* very step.
C35_CancelledRunLeavesCache ==
    [][/\ \A b \in Batches :
            /\ (how[b] # "cancelled" /\ how'[b] = "cancelled") => cache' = cache
            /\ how[b] = "cancelled" =>
                  /\ pc'[b] = pc[b] /\ how'[b] = how[b]
                  /\ found'[b] = found[b] /\ handles'[b] = handles[b]
       /\ cache' # cache =>
            \E b \in Batches :
                /\ pc[b] = "search" /\ pc'[b] \in {"loop", "done"}
                /\ how'[b] # "cancelled"
                /\ cache' = [imerg |-> found'[b].imerg, merra |-> found'[b].merra,
                             ts |-> now]]_vars

\* A run was cancelled during its search after some searches had been made,
\* while the key held the entry an earlier run had stored: the entry is
\* still that one.
C35_Witness ==
    \E b \in Batches, c \in Batches :
        /\ how[b] = "cancelled" /\ pc[b] = "done"
        /\ \E yp \in DOMAIN search_calls : search_calls[yp] = 2
        /\ pc[c] \in {"loop", "done"} /\ how[c] # "cancelled"
        /\ cache # NoEntry
        /\ cache = [imerg |-> found[c].imerg, merra |-> found[c].merra,
                    ts |-> found[c].ts]
        /\ now - cache.ts >= CacheTTL

\* ---------------------------------------------------------------- C39
\* The call of batch b has returned the list its collector handed back.
Collected(b) == pc[b] = "done" /\ how[b] \in {"empty", "early", "exhausted"}

\* What holds of every result but the captured exception's error.
C39_Shape(b) ==
    /\ response[b].success =>
          Len(response[b].data) >= 3 /\ response[b].error = "None"
    /\ response[b] = TimeoutResponse =>
          response[b].data = <<>> /\ response[b].error # ""
    /\ how[b] = "raised" => response[b].data = <<>> /\ ~response[b].success
    /\ (Collected(b) /\ ~response[b].success /\ response[b] # TimeoutResponse) =>
          /\ response[b].data = results[b]
          /\ response[b].error = InsufficientMessage(Len(results[b]))

\* C39 as stated: every result of fetch_with_timeout with success=True has
\* at least 3 observations and no error; a Timeout or a captured exception
\* has empty data and a non-empty error; an insufficient-data result has
\* success=False, the observations collected, and an error stating their count.
C39_ResultShapeNonEmptyError ==
    \A b \in Batches : pc[b] = "done" =>
        /\ C39_Shape(b)
        /\ how[b] = "raised" => response[b].error # ""

\* C39 amended: as stated, except that the error of a captured exception is
\* the exception's message, which is empty for an exception raised without one.
C39_ResultShape ==
    \A b \in Batches : pc[b] = "done" =>
        /\ C39_Shape(b)
        /\ how[b] = "raised" => response[b].error = exc[b]

\* An insufficient-data result that keeps the observations collected.
C39_Witness ==
    /\ Collected(1)
    /\ ~response[1].success
    /\ Len(response[1].data) = 2
    /\ response[1].error = "Insufficient data (2 points)"

\* ---------------------------------------------------------------- C37
\* Every requested year of call b had a handle and its extraction yielded an
\* observation, and the deadline did not fire.
FullySuccessful(b) ==
    /\ Collected(b)
    /\ ~expired[b]
    /\ \A y \in Years : tasks[b][y] = "obs"

\* C37: for every years_back >= 1 and every early_return_count, a call all
\* of whose requested years have handles and all of whose extractions yield
\* an observation before the deadline returns success=True.
C37_FullBatchSucceeds ==
    \A b \in Batches : FullySuccessful(b) => response[b].success

\* ---------------------------------------------------------------- C40
\* C40: for every Hybrid record the orchestrator builds, the data and the
\* source label a probability endpoint selects from layer1/layer2 are the
\* record's primary data and source label.
C40_EndpointSelectsPrimary ==
    (opc = "done" /\ mode = "hybrid") =>
        SelectLayer(record) = [data |-> record.primary.data,
                               source |-> record.primary.source]

\* A Hybrid record whose layer1 holds observations without success, so that
\* the endpoint goes on with layer2.
C40_Witness ==
    /\ opc = "done" /\ mode = "hybrid"
    /\ ~record.layer1.success
    /\ Len(record.layer1.data) > 0
    /\ SelectLayer(record).source = L2Source
    /\ Len(SelectLayer(record).data) > 0

\* ---------------------------------------------------------------- C34
\* C34: in Hybrid mode the precise path and the Fast source have both been
\* started when the first of them is awaited; the Fast source is awaited
\* first and its result is held while the precise path is awaited; no record
\* exists before the Fast source has completed, even with the precise path
\* finished, and the record carries the Fast result that was held.
C34_FastAwaitedFirst ==
    mode = "hybrid" =>
        /\ opc = "hybrid_await2" =>
              /\ l1_calls = 1 /\ l2_calls = 1
              /\ layer1_task \in {"running", "finished"}
              /\ layer2_task = "running"
              /\ layer1_response = NoResponse
              /\ record = NoRecord
        /\ opc = "hybrid_await1" =>
              /\ layer2_task = "finished"
              /\ layer2_response \notin {NoResponse, Raised}
              /\ layer1_response = NoResponse
              /\ record = NoRecord
        /\ opc = "done" =>
              /\ layer2_task = "finished"
              /\ record.layer2 = Layer2Entry(layer2_response)
        /\ record # NoRecord => opc = "done"

\* The precise path has finished with a usable result while the Fast source
\* is still awaited: nothing is returned yet.
C34_Witness ==
    /\ mode = "hybrid"
    /\ opc = "hybrid_await2"
    /\ layer1_task = "finished"
    /\ Layer1Usable(layer1_result)
    /\ layer2_task = "running"
    /\ record = NoRecord

\* ---------------------------------------------------------------- C31
\* C31: /probability/rain answers 503 exactly when the orchestrator has not
\* been initialized and 500 when handling the request raised an exception; a
\* record whose primary is failed or empty is answered with 200, probability
\* 0.0 and data_points 0.
C31_EndpointStatus ==
    /\ ~orchestrator => opc \in {"request", "refused"}
    /\ opc = "refused" => http.status = 503
    /\ http # NoAnswer =>
          /\ http.status = 503 <=> ~orchestrator
          /\ http.status = 500 <=> (orchestrator /\ opc = "raised")
          /\ http.status = 200 <=> (orchestrator /\ opc = "done")
          /\ (opc = "done" /\ (~record.primary.success \/ record.primary.data = <<>>)) =>
                /\ http.status = 200
                /\ http.probability = 0
                /\ http.data_points = 0

\* A record with a failed primary has been answered with 200.
C31_Witness ==
    /\ opc = "done"
    /\ ~record.primary.success
    /\ http # NoAnswer
    /\ http.status = 200
    /\ http.probability = 0
    /\ http.data_points = 0

\* ---------------------------------------------------------------- C36
\* C36: with searches, reads and the POWER call coming to an end,
\* HybridOrchestrator.fetch eventually returns a record in every mode,
\* whatever the years yield and however years_back compares with
\* max_concurrency, and every extraction waiting for the semaphore
\* eventually acquires it or is cancelled: a waiting extraction leaves the
\* wait only by acquiring or by being cancelled, and in the end the record
\* is returned and none waits.
C36_FetchTerminates ==
    /\ [][\A y \in Years :
            tasks[1][y] = "pending" =>
                tasks'[1][y] \in {"pending", "reading", "cancelled"}]_vars
    /\ <>[](/\ opc = "done" /\ record # NoRecord
            /\ \A y \in Years : tasks[1][y] # "pending")

\* A precise request has returned its record after more extractions were
\* launched than the semaphore admits, one of them cancelled while waiting.
C36_Witness ==
    /\ opc = "done" /\ record # NoRecord
    /\ mode = "precise"
    /\ years_back > max_concurrency
    /\ \E y \in Years : tasks[1][y] = "cancelled" /\ thread[1][y] = "idle"
    /\ \E y \in Years : tasks[1][y] = "obs"

\* ---------------------------------------------------------------- C33
\* How far HybridOrchestrator.fetch and the collector have come.
OpcRank(p) ==
    CASE p = "start" -> 0
      [] p \in {"fast_await", "precise_await", "hybrid_await2"} -> 1
      [] p \in {"precise_fallback", "hybrid_await1"} -> 2
      [] OTHER -> 3
PcRank(p) ==
    CASE p \in {"off", "idle"} -> 0
      [] p = "search" -> 1
      [] p = "loop" -> 2
      [] OTHER -> 3

\* The step gives a year of the batch its handles and its extraction task.
HandlesResolved == \E y \in Years : tasks[1][y] = "none" /\ tasks'[1][y] # "none"

\* C33: within one request each mode only moves forward, without loops or
\* retries: the precise path is started at most once, the Fast source is
\* called at most once, and the handles of all years of the batch are
\* resolved in one step that happens at most once.
C33_LinearModes ==
    /\ [](l1_calls <= 1 /\ l2_calls <= 1)
    /\ [][/\ opc' # opc => OpcRank(opc') > OpcRank(opc)
          /\ l1_calls' # l1_calls => (l1_calls = 0 /\ opc = "start")
          /\ l2_calls' # l2_calls => l2_calls = 0
          /\ pc'[1] # pc[1] => PcRank(pc'[1]) > PcRank(pc[1])
          /\ HandlesResolved =>
                /\ pc[1] \in {"idle", "search"} /\ pc'[1] = "loop"
                /\ \A y \in Years : tasks[1][y] = "none"]_vars

\* A precise request that went through the collector for a batch of three
\* years and through the fallback has returned.
C33_Witness ==
    /\ opc = "done" /\ mode = "precise"
    /\ record.fallback_used
    /\ l1_calls = 1 /\ l2_calls = 1
    /\ pc[1] = "done"
    /\ Cardinality({y \in Years : tasks[1][y] # "none"}) = 3

====
